---- MODULE Spec2Model ----
(***************************************************************************)
(* Reversi engines of the repository:                                      *)
(*   - FastOthello, the bordered 10x10 board of the N-tuple worker         *)
(*     (src/unnamed/part_000), with its self-play loop trainLoop;          *)
(*   - UltimateAI of src/ai_core.js, the N-tuple engine on a flat board    *)
(*     of 64 cells (1 black, -1 white, 0 empty);                           *)
(*   - UltimateAI of src/ai-worker.js and src/unnamed/part_001, the        *)
(*     positional-weight engine on board[r][c] (1 black, 2 white, 0        *)
(*     empty), with its self-play loop runTrainingLoop.                    *)
(* The variable prog says which worker file is running.                    *)
(***************************************************************************)
EXTENDS Integers, Sequences, FiniteSets, TLC

VARIABLES
    prog,       \* "fast" (part_000 + ai_core.js), "v5" (ai-worker.js), "v6" (part_001)
    pc,         \* position of the self-play loop: "idle" (at its while), "start",
                \* "play", "over"; "serve" when no loop is executing
    board,      \* FastOthello.board: 0..99 -> {-1, 0, 1, 2}
    turn,       \* FastOthello.turn
    passCount,  \* FastOthello.passCount
    history,    \* trainLoop's history: sequence of [board |-> flat 64, turn |-> side]
    tboard,     \* runTrainingLoop's board[r][c]
    cur,        \* runTrainingLoop's cur
    tpass,      \* runTrainingLoop's passCount
    winner,     \* game.getResult() / runTrainingLoop's winner, once the game is over
    weights,    \* UltimateAI.weights of the positional-weight engine
    seed,       \* which outcome the Math.random() calls of the N-tuple constructor had
    plies,      \* turns of the ply loop taken in the game so far; for an engine
                \* called directly or a worker asked for moves, the calls served
    placed,     \* discs placed (non-PASS plies) in the game so far
    last,       \* the last board call made: its operation, arguments and the state before it
    totalGames, \* UltimateAI.totalGames of the positional-weight engine
    stored,     \* what StorageManager.saveData wrote last: [weights, totalGames]
    games,      \* runTrainingLoop's gamesInSession / trainLoop's gamesCount
    isTraining, \* the worker's isTraining
    inbox,      \* messages posted to the worker that onmessage has not been called for
    running,    \* the call of the training loop that is executing (0: none is)
    loops,      \* the calls of the training loop made so far, each with where it stands
    saves,      \* the transactions of saveData that have not completed and the timers
                \* that have not fired, oldest first
    posted,     \* the messages the worker has posted
    sent        \* how many messages have been posted to the worker

\* the worker's part of the state
workerVars == <<isTraining, inbox, running, loops, saves, posted, sent>>

vars == <<prog, pc, board, turn, passCount, history, tboard, cur, tpass, winner,
          weights, seed, plies, placed, last, totalGames, stored, games,
          isTraining, inbox, running, loops, saves, posted, sent>>

\* ------------------------------------------------------------------ bounds

\* trainLoop draws a random move only in the first MaxRandomPly plies of a game
MaxRandomPly == 1

\* runTrainingLoop draws among the top three only in the first MaxExplorePly
\* plies of a game
MaxExplorePly == 4

\* runTrainingLoop draws among the top three only in the first MaxExploreGames
\* games of a session
MaxExploreGames == 1

\* games runTrainingLoop plays before STOP_TRAINING ends the session
MaxGames == 2

\* outcomes of the random initial N-tuple weights that are told apart
MaxSeed == 2

\* ---------------------------------------------------------------- helpers

\* F applied to the value of x, with x evaluated once (a statement's result
\* held in a local variable)
Let(x, F(_)) == CHOOSE r \in {F(y) : y \in {x}} : TRUE

\* ------------------------------------------------------------ FastOthello

EMPTY == 0
WALL == 2
PASS == -1

\* this.directions of FastOthello
directions == <<-11, -10, -9, -1, 1, 9, 10, 11>>

\* the cells y*10+x visited by "for y in 1..8, for x in 1..8", in that order
Playable == [k \in 1..64 |-> (((k - 1) \div 8) + 1) * 10 + ((k - 1) % 8) + 1]

\* a reset that places three of the four discs; C8 tells it from resetBoard
resetBoardThree ==
    [i \in 0..99 |->
        IF i = 44 THEN -1
        ELSE IF i = 45 \/ i = 54 THEN 1
        ELSE IF i \div 10 \in 1..8 /\ i % 10 \in 1..8 THEN EMPTY
        ELSE WALL]

\* FastOthello.reset: the board it builds
resetBoard ==
    [i \in 0..99 |->
        IF i = 44 \/ i = 55 THEN -1
        ELSE IF i = 45 \/ i = 54 THEN 1
        ELSE IF i \div 10 \in 1..8 /\ i % 10 \in 1..8 THEN EMPTY
        ELSE WALL]

\* a getFlatBoard64 that reads columns as rows; C6 tells it from getFlatBoard64
getFlatBoardTransposed(b) == [i \in 0..63 |-> b[((i % 8) + 1) * 10 + (i \div 8) + 1]]

\* FastOthello.getFlatBoard64
getFlatBoard64(b) == [i \in 0..63 |-> b[((i \div 8) + 1) * 10 + (i % 8) + 1]]

\* "while (this.board[curr] === v) curr += dir": the index the walk stops at
RECURSIVE walkWhile(_, _, _, _)
walkWhile(b, curr, dir, v) ==
    IF b[curr] = v THEN walkWhile(b, curr + dir, dir, v) ELSE curr

\* a canHit that asks for an opponent disc next to idx and nothing behind it;
\* C1 tells it from canHit
canHitNear(b, t, idx) == \E k \in 1..8 : b[idx + directions[k]] = -t

\* the canHit flag of FastOthello.getLegalMoves for cell idx
canHit(b, t, idx) ==
    \E k \in 1..8 :
        LET dir == directions[k]
            curr == idx + dir
        IN  /\ b[curr] = -t
            /\ b[walkWhile(b, curr, dir, -t)] = t

\* FastOthello.getLegalMoves: 10x10 indices, in scan order
getLegalMoves10(b, t) ==
    SelectSeq(Playable, LAMBDA idx : b[idx] = EMPTY /\ canHit(b, t, idx))

\* "while (this.board[curr] === opponent) { flippables.push(curr); curr += dir; }"
RECURSIVE collectRun(_, _, _, _, _)
collectRun(b, curr, dir, opponent, flippables) ==
    IF b[curr] = opponent
    THEN collectRun(b, curr + dir, dir, opponent, Append(flippables, curr))
    ELSE [flippables |-> flippables, curr |-> curr]

\* "for (let f of flippables) b[f] = v", from the n-th element on
RECURSIVE setAll(_, _, _, _)
setAll(b, flippables, n, v) ==
    IF n > Len(flippables) THEN b
    ELSE setAll([b EXCEPT ![flippables[n]] = v], flippables, n + 1, v)

\* a flipDir without "if (this.board[curr] === this.turn)"; C2 tells it from
\* flipDir
flipDirOpen(b, t, idx, dir) ==
    IF b[idx + dir] = -t
    THEN setAll(b, collectRun(b, idx + dir, dir, -t, <<>>).flippables, 1, t)
    ELSE b

\* one direction of FastOthello.makeMove (the body of "for (let dir of ...)")
flipDir(b, t, idx, dir) ==
    LET opponent == -t
        curr == idx + dir
    IN  IF b[curr] = opponent
        THEN LET run == collectRun(b, curr, dir, opponent, <<>>)
             IN  IF b[run.curr] = t
                 THEN setAll(b, run.flippables, 1, t)
                 ELSE b
        ELSE b

RECURSIVE flipFrom(_, _, _, _)
flipFrom(b, t, idx, k) ==
    IF k > 8 THEN b
    ELSE Let(flipDir(b, t, idx, directions[k]), LAMBDA nb : flipFrom(nb, t, idx, k + 1))

\* a makeMove that leaves out "this.board[idx] = this.turn"; C5 tells it from
\* placeDisc
placeNothing(b, t, idx) == b

\* the board on which "this.board[idx] = this.turn" of makeMove acts
placeDisc(b, t, idx) == [b EXCEPT ![idx] = t]

\* a makeMove whose PASS branch leaves passCount as it is; C3 tells it from
\* makeMove
makeMoveKeep(b, t, p, idx) ==
    IF idx = PASS
    THEN [board |-> b, turn |-> -t, passCount |-> p]
    ELSE [board |-> Let(placeDisc(b, t, idx), LAMBDA nb : flipFrom(nb, t, idx, 1)),
          turn |-> -t, passCount |-> 0]

\* a makeMove that returns at once for a cell outside getLegalMoves(); C9 tells
\* it from makeMove
makeMoveChecked(b, t, p, idx) ==
    IF idx = PASS
    THEN [board |-> b, turn |-> -t, passCount |-> p + 1]
    ELSE IF b[idx] # EMPTY \/ ~canHit(b, t, idx)
    THEN [board |-> b, turn |-> t, passCount |-> p]
    ELSE [board |-> Let(placeDisc(b, t, idx), LAMBDA nb : flipFrom(nb, t, idx, 1)),
          turn |-> -t, passCount |-> 0]

\* FastOthello.makeMove: the state [board, turn, passCount] after it
makeMove(b, t, p, idx) ==
    IF idx = PASS
    THEN [board |-> b, turn |-> -t, passCount |-> p + 1]
    ELSE [board |-> Let(placeDisc(b, t, idx), LAMBDA nb : flipFrom(nb, t, idx, 1)),
          turn |-> -t, passCount |-> 0]

\* FastOthello.isGameOver
isGameOver(b, p) ==
    LET flat == getFlatBoard64(b)
    IN  p >= 2 \/ ~(\E i \in 0..63 : flat[i] = 0)

\* FastOthello.getResult
getResult(b) ==
    LET nb == Cardinality({i \in 0..99 : b[i] = 1})
        nw == Cardinality({i \in 0..99 : b[i] = -1})
    IN  IF nb > nw THEN 1 ELSE IF nw > nb THEN -1 ELSE 0

\* ------------------------------------------- UltimateAI (N-tuple, ai_core.js)

\* the dirs of simulateMove and canFlip; also this.directions of the
\* positional-weight engine
dirs == <<<<-1, -1>>, <<-1, 0>>, <<-1, 1>>, <<0, -1>>, <<0, 1>>, <<1, -1>>, <<1, 0>>, <<1, 1>>>>

inBoard(nr, nc) == nr >= 0 /\ nr < 8 /\ nc >= 0 /\ nc < 8

\* the while loop of canFlip (ai_core.js) in one direction: TRUE when it
\* reaches "return true"
RECURSIVE scanDir(_, _, _, _, _, _)
scanDir(b, nr, nc, d, t, hasOpp) ==
    IF inBoard(nr, nc)
    THEN LET val == b[nr * 8 + nc]
         IN  IF val = -t THEN scanDir(b, nr + d[1], nc + d[2], d, t, TRUE)
             ELSE IF val = t THEN hasOpp
             ELSE FALSE
    ELSE FALSE

\* UltimateAI.canFlip (ai_core.js)
canFlip(b, idx, t) ==
    LET r == idx \div 8
        c == idx % 8
    IN  \E k \in 1..8 : scanDir(b, r + dirs[k][1], c + dirs[k][2], dirs[k], t, FALSE)

Cells64 == [k \in 1..64 |-> k - 1]

\* UltimateAI.getLegalMoves (ai_core.js): flat indices, ascending
getLegalMoves(b, t) ==
    SelectSeq(Cells64, LAMBDA i : b[i] = 0 /\ canFlip(b, i, t))

\* the while loop of simulateMove in one direction: the board it leaves
RECURSIVE simDir(_, _, _, _, _, _)
simDir(nb, nr, nc, d, t, flippables) ==
    IF inBoard(nr, nc)
    THEN LET idx == nr * 8 + nc
         IN  IF nb[idx] = -t
             THEN simDir(nb, nr + d[1], nc + d[2], d, t, Append(flippables, idx))
             ELSE IF nb[idx] = t
             THEN setAll(nb, flippables, 1, t)
             ELSE nb
    ELSE nb

RECURSIVE simFrom(_, _, _, _, _)
simFrom(nb, r, c, t, k) ==
    IF k > 8 THEN nb
    ELSE Let(simDir(nb, r + dirs[k][1], c + dirs[k][2], dirs[k], t, <<>>),
             LAMBDA nb2 : simFrom(nb2, r, c, t, k + 1))

\* UltimateAI.simulateMove (ai_core.js): the new board
simulateMove(b, moveIdx, t) ==
    Let([b EXCEPT ![moveIdx] = t],
        LAMBDA newBoard : simFrom(newBoard, moveIdx \div 8, moveIdx % 8, t, 1))

\* ------------------- UltimateAI (positional weights, ai-worker.js / part_001)

\* UltimateAI.canFlip(b, r, c, d, p): the loop from (nr, nc)
RECURSIVE wScan(_, _, _, _, _, _)
wScan(b, nr, nc, d, p, hasOpp) ==
    IF inBoard(nr, nc)
    THEN IF b[nr][nc] = 3 - p THEN wScan(b, nr + d[1], nc + d[2], d, p, TRUE)
         ELSE IF b[nr][nc] = p THEN hasOpp
         ELSE FALSE
    ELSE FALSE

wCanFlip(b, r, c, d, p) == wScan(b, r + d[1], c + d[2], d, p, FALSE)

\* an isValid that accepts every empty cell; C4 tells it from isValid
isValidEmpty(b, r, c, p) == b[r][c] = 0

\* UltimateAI.isValid
isValid(b, r, c, p) ==
    IF b[r][c] # 0 THEN FALSE ELSE \E k \in 1..8 : wCanFlip(b, r, c, dirs[k], p)

\* "while(b[nr][nc]!==p) { b[nr][nc]=p; nr+=d[0]; nc+=d[1]; }" of execute
RECURSIVE wFlipRun(_, _, _, _, _)
wFlipRun(b, nr, nc, d, p) ==
    IF b[nr][nc] # p
    THEN wFlipRun([b EXCEPT ![nr][nc] = p], nr + d[1], nc + d[2], d, p)
    ELSE b

RECURSIVE wExecFrom(_, _, _, _, _)
wExecFrom(b, r, c, p, k) ==
    IF k > 8 THEN b
    ELSE Let(IF wCanFlip(b, r, c, dirs[k], p)
             THEN wFlipRun(b, r + dirs[k][1], c + dirs[k][2], dirs[k], p)
             ELSE b,
             LAMBDA nb : wExecFrom(nb, r, c, p, k + 1))

\* UltimateAI.execute: the board it leaves in b
execute(b, r, c, p) ==
    Let([b EXCEPT ![r][c] = p], LAMBDA nb : wExecFrom(nb, r, c, p, 1))

CellsRC == [k \in 1..64 |-> [r |-> (k - 1) \div 8, c |-> (k - 1) % 8]]

\* UltimateAI.getValidMoves: the cells {r, c}, in scan order
getValidMoves(b, p) == SelectSeq(CellsRC, LAMBDA m : isValid(b, m.r, m.c, p))

\* ------------------------------------------------ N-tuple score, getBestMove

\* this.rawTuples
rawTuples == <<
    <<0, 1, 2, 3, 8, 9, 10, 11>>,
    <<0, 1, 2, 3, 4, 5, 6, 7>>,
    <<0, 9, 18, 27, 36, 45, 54, 63>>,
    <<18, 19, 26, 27, 20, 21, 28, 29>> >>

\* a generateSymmetryMaps whose exchange of r and c takes the row as it was
\* before the vertical flip; C31 tells it from symmetryCell
symmetryCellStale(s, i) ==
    LET r0 == i \div 8
        c0 == i % 8
        c1 == IF s % 2 = 1 THEN 7 - c0 ELSE c0
        r1 == IF (s \div 2) % 2 = 1 THEN 7 - r0 ELSE r0
        r2 == IF (s \div 4) % 2 = 1 THEN c1 ELSE r1
        c2 == IF (s \div 4) % 2 = 1 THEN r0 ELSE c1
    IN  r2 * 8 + c2

\* the body of generateSymmetryMaps' inner loop: map[i] of the map built for s
symmetryCell(s, i) ==
    LET r0 == i \div 8
        c0 == i % 8
        c1 == IF s % 2 = 1 THEN 7 - c0 ELSE c0
        r1 == IF (s \div 2) % 2 = 1 THEN 7 - r0 ELSE r0
        r2 == IF (s \div 4) % 2 = 1 THEN c1 ELSE r1
        c2 == IF (s \div 4) % 2 = 1 THEN r1 ELSE c1
    IN  r2 * 8 + c2

\* generateSymmetryMaps: this.symmetryMaps, as symmetryMaps[s + 1][i + 1]
symmetryMaps ==
    SubSeq([s \in 1..8 |-> SubSeq([i \in 1..64 |-> symmetryCell(s - 1, i - 1)], 1, 64)], 1, 8)

\* "map[rawTuple[i]]" for every tuple t, symmetry s and position i, as
\* tupleCells[t][s + 1][i]
tupleCells ==
    SubSeq([t \in 1..Len(rawTuples) |->
        SubSeq([s \in 1..8 |->
            SubSeq([i \in 1..Len(rawTuples[t]) |-> symmetryMaps[s][rawTuples[t][i] + 1]],
                   1, Len(rawTuples[t]))],
            1, 8)],
        1, Len(rawTuples))

\* the base-3 index of the tuple whose cells are boardIdxs on board b: the loop
\* "for (let i = 0; i < rawTuple.length; i++)" from i on (i counts from 1)
RECURSIVE tupleIndex(_, _, _, _, _)
tupleIndex(b, boardIdxs, i, index, power) ==
    IF i > Len(boardIdxs) THEN index
    ELSE LET cell == b[boardIdxs[i]]
             val == IF cell = 0 THEN 0 ELSE IF cell = 1 THEN 1 ELSE 2
         IN  tupleIndex(b, boardIdxs, i + 1, index + val * power, power * 3)

\* the initial weights[t][index], "(Math.random() - 0.5) * 0.01", in units of
\* 10^-5: one fixed table per seed
initialWeight(t, index) ==
    ((seed * 7919 + t * 3571 + index * 6007 + (index \div 7) * 389) % 1000) - 500

\* this.weights[t][index] in units of 10^-7: w holds the entries written since
\* the constructor ran, at <<t, index>>; the others hold their initial value
weightAt(w, t, index) ==
    IF <<t, index>> \in DOMAIN w THEN w[<<t, index>>] ELSE 100 * initialWeight(t, index)

\* the inner loops of updateWeights with the raw tuple for the map of every s
tupleKeysRaw(b) ==
    [n \in 0..(8 * Len(rawTuples) - 1) |->
        Let(tupleCells[(n \div 8) + 1][1],
            LAMBDA boardIdxs :
                Let(tupleIndex(b, boardIdxs, 1, 0, 1),
                    LAMBDA index : <<(n \div 8) + 1, index>>))]

\* the inner loops of updateWeights (ai_core.js) for tuple t and symmetry s,
\* flattened to n = 8 * t + s: the entry <<t, index>> they reach
tupleKeys(b) ==
    [n \in 0..(8 * Len(rawTuples) - 1) |->
        Let(tupleCells[(n \div 8) + 1][(n % 8) + 1],
            LAMBDA boardIdxs :
                Let(tupleIndex(b, boardIdxs, 1, 0, 1),
                    LAMBDA index : <<(n \div 8) + 1, index>>))]

\* "weightTable[index]" of each of the 32 turns of evaluate's inner loop
tupleScore(w, b) ==
    [n \in 0..(8 * Len(rawTuples) - 1) |->
        Let(tupleCells[(n \div 8) + 1][(n % 8) + 1],
            LAMBDA boardIdxs :
                Let(tupleIndex(b, boardIdxs, 1, 0, 1),
                    LAMBDA index : weightAt(w, (n \div 8) + 1, index)))]

\* UltimateAI.evaluate (ai_core.js): "totalScore += ..." over the two nested loops
RECURSIVE evalFrom(_, _, _)
evalFrom(scores, n, totalScore) ==
    IF n >= 8 * Len(rawTuples) THEN totalScore
    ELSE evalFrom(scores, n + 1, totalScore + scores[n])

\* UltimateAI.evaluate with the table w
evaluateT(w, b) == Let(b, LAMBDA board64 : evalFrom(tupleScore(w, board64), 0, 0))

evaluateN(b) == evaluateT(weights, b)

\* "error * this.learningRate" with learningRate 0.01, cut to the unit
deltaOf(error) == IF error >= 0 THEN error \div 100 ELSE -((-error) \div 100)

\* the table with its entries read: one value per entry written
held(w) == IF w = <<>> THEN w ELSE w

\* UltimateAI.updateWeights: "weightTable[index] += delta" for each of the 32
\* entries the board reaches, an entry reached twice taking delta twice
updateWeights(w, b, error) ==
    Let(tupleKeys(b),
        LAMBDA keys :
            Let([x \in DOMAIN w \cup {keys[n] : n \in DOMAIN keys} |->
                    weightAt(w, x[1], x[2])
                    + deltaOf(error) * Cardinality({n \in DOMAIN keys : keys[n] = x})],
                LAMBDA nw : held(nw)))

\* result, 1.0, -1.0 or 0, in units of 10^-7
targetOf(result) == result * 10000000

\* a turn of train's loop that hands on the value of the board after its update
trainStepAfter(st, hist, k) ==
    LET state == hist[Len(hist) - k + 1]
    IN  Let(evaluateT(st.w, state.board),
            LAMBDA currentVal :
                Let(updateWeights(st.w, state.board, st.target - currentVal),
                    LAMBDA nw :
                        [target |-> evaluateT(nw, state.board),
                         w |-> nw,
                         trace |-> Append(st.trace,
                                          [i |-> Len(hist) - k, target |-> st.target,
                                           value |-> currentVal,
                                           error |-> st.target - currentVal,
                                           table |-> st.w])]))

\* the k-th turn of "for (let i = history.length - 1; i >= 0; i--)" of train:
\* st holds currentTarget, the table and the turns taken so far, each with its
\* i, its target, the value and the error it computed and the table it read
trainStep(st, hist, k) ==
    LET state == hist[Len(hist) - k + 1]
    IN  Let(evaluateT(st.w, state.board),
            LAMBDA currentVal :
                Let(updateWeights(st.w, state.board, st.target - currentVal),
                    LAMBDA nw :
                        [target |-> currentVal,
                         w |-> nw,
                         trace |-> Append(st.trace,
                                          [i |-> Len(hist) - k, target |-> st.target,
                                           value |-> currentVal,
                                           error |-> st.target - currentVal,
                                           table |-> st.w])]))

\* the turns lo..hi of train's loop, one after the other (the first half of
\* them, then the rest)
RECURSIVE trainTurns(_, _, _, _)
trainTurns(st, hist, lo, hi) ==
    IF lo = hi THEN trainStep(st, hist, lo)
    ELSE Let(trainTurns(st, hist, lo, (lo + hi) \div 2),
             LAMBDA half : trainTurns(half, hist, ((lo + hi) \div 2) + 1, hi))

\* UltimateAI.train (ai_core.js): the table it leaves and the turns it took
trainN(w, hist, result) ==
    IF Len(hist) = 0 THEN [target |-> targetOf(result), w |-> w, trace |-> <<>>]
    ELSE trainTurns([target |-> targetOf(result), w |-> w, trace |-> <<>>],
                    hist, 1, Len(hist))

\* "if (turn === -1) score = -score": the score of getBestMove (ai_core.js)
\* for the side to move, from evaluate's value raw
turnScore(raw, t) == IF t = -1 THEN -raw ELSE raw

\* the loop of getBestMove (ai_core.js) from the k-th legal move on;
\* best.none stands for bestScore = -Infinity
RECURSIVE bestFrom(_, _, _, _, _)
bestFrom(b, t, legalMoves, k, best) ==
    IF k > Len(legalMoves) THEN best.move
    ELSE LET move == legalMoves[k]
         IN  Let(evaluateN(simulateMove(b, move, t)),
                 LAMBDA raw :
                     LET score == turnScore(raw, t)
                     IN  IF best.none \/ score > best.score
                         THEN bestFrom(b, t, legalMoves, k + 1,
                                       [none |-> FALSE, score |-> score, move |-> move])
                         ELSE bestFrom(b, t, legalMoves, k + 1, best))

\* UltimateAI.getBestMove (ai_core.js): a flat index, or -1
getBestMoveN(b, t) ==
    Let(getLegalMoves(b, t),
        LAMBDA legalMoves :
            IF Len(legalMoves) = 0 THEN -1
            ELSE bestFrom(b, t, legalMoves, 1, [none |-> TRUE, score |-> 0, move |-> -1]))

\* "new Int8Array(board)" of simulateMove: a copy; shared tells whether a
\* write to a cell of the copy reaches board
copyInt8(b) == [board |-> [i \in 0..63 |-> b[i]], shared |-> FALSE]

\* the board getBestMove (ai_core.js) was passed, as the simulateMove calls of
\* its loop leave it, from the k-th legal move on
RECURSIVE leftFrom(_, _, _, _)
leftFrom(b, t, legalMoves, k) ==
    IF k > Len(legalMoves) THEN b
    ELSE leftFrom(IF copyInt8(b).shared THEN simulateMove(b, legalMoves[k], t) ELSE b,
                  t, legalMoves, k + 1)

boardLeftN(b, t) == leftFrom(b, t, getLegalMoves(b, t), 1)

\* ------------------------------------------- positional weights, move order

\* this.defaultWeights of ai-worker.js
defaultWeightsV5 == <<
    <<100, -20, 20,  5,  5, 20, -20, 100>>,
    <<-20, -40, -5, -5, -5, -5, -40, -20>>,
    << 20,  -5, 15,  3,  3, 15,  -5,  20>>,
    <<  5,  -5,  3,  3,  3,  3,  -5,   5>>,
    <<  5,  -5,  3,  3,  3,  3,  -5,   5>>,
    << 20,  -5, 15,  3,  3, 15,  -5,  20>>,
    <<-20, -40, -5, -5, -5, -5, -40, -20>>,
    <<100, -20, 20,  5,  5, 20, -20, 100>> >>

\* this.defaultWeights of part_001
defaultWeightsV6 == <<
    << 120, -60,  20,   5,   5,  20, -60, 120>>,
    << -60, -80,  -5,  -5,  -5,  -5, -80, -60>>,
    <<  20,  -5,  15,   3,   3,  15,  -5,  20>>,
    <<   5,  -5,   3,   3,   3,   3,  -5,   5>>,
    <<   5,  -5,   3,   3,   3,   3,  -5,   5>>,
    <<  20,  -5,  15,   3,   3,  15,  -5,  20>>,
    << -60, -80,  -5,  -5,  -5,  -5, -80, -60>>,
    << 120, -60,  20,   5,   5,  20, -60, 120>> >>

\* Weights and scores of the positional engines are held in halves, the
\* number x as 2 * x: train of ai-worker.js adds 1.5 to a weight, and every
\* number the engine computes is a multiple of 0.5
Halves(x) == 2 * x

\* "JSON.parse(JSON.stringify(this.defaultWeights))" as weights[r][c], r, c in 0..7
copyWeights(d) == [r \in 0..7 |-> [c \in 0..7 |-> Halves(d[r + 1][c + 1])]]

\* Array.prototype.sort is stable: m goes behind every move that does not
\* compare after it
RECURSIVE insertMove(_, _, _)
insertMove(sorted, m, w) ==
    IF sorted = <<>> THEN <<m>>
    ELSE IF w[m.r][m.c] - w[Head(sorted).r][Head(sorted).c] > 0
         THEN <<m>> \o sorted
         ELSE Let(Tail(sorted), LAMBDA rest : <<Head(sorted)>> \o insertMove(rest, m, w))

\* "moves.sort((a,b) => weights[b.r][b.c] - weights[a.r][a.c])"
RECURSIVE sortPrefix(_, _, _)
sortPrefix(moves, n, w) ==
    IF n = 0 THEN <<>>
    ELSE Let(sortPrefix(moves, n - 1, w), LAMBDA sorted : insertMove(sorted, moves[n], w))

sortMoves(moves, w) == Let(moves, LAMBDA ms : sortPrefix(ms, Len(ms), w))

\* ------------------------------------------ positional weights, the search

\* the magnitude standing for Infinity: above every score the engine computes
Infinity == 1000000000

Max(a, b) == IF a >= b THEN a ELSE b
Min(a, b) == IF a <= b THEN a ELSE b

\* the value getBestMove returns when there is no move
null == [r |-> -1, c |-> -1]

\* UltimateAI.countEmpty
countEmpty(b) == Cardinality({m \in (0..7) \X (0..7) : b[m[1]][m[2]] = 0})

\* "for r, for c: score += / -= term" over the 64 cells, from the k-th on
RECURSIVE cellSum(_, _)
cellSum(term, k) == IF k > 64 THEN 0 ELSE term[k] + cellSum(term, k + 1)

\* part 1 of evaluate: the weight of each cell, signed by its owner
weightScore(b, player) ==
    cellSum([k \in 1..64 |->
                LET r == CellsRC[k].r
                    c == CellsRC[k].c
                IN  IF b[r][c] = player THEN weights[r][c]
                    ELSE IF b[r][c] = 3 - player THEN -weights[r][c]
                    ELSE 0], 1)

corners == <<[r |-> 0, c |-> 0], [r |-> 0, c |-> 7], [r |-> 7, c |-> 0], [r |-> 7, c |-> 7]>>

\* a mobility term that counts the moves of player alone
mobilityOwn(b, player) == Len(getValidMoves(b, player)) * Halves(15)

\* part 3 of evaluate: "(myMoves - oppMoves) * 15"
mobilityScore(b, player) ==
    (Len(getValidMoves(b, player)) - Len(getValidMoves(b, 3 - player))) * Halves(15)

\* part 2 of evaluate in ai-worker.js: +-150 for each corner held
cornerScoreV5(b, player) ==
    LET bonus(k) == IF b[corners[k].r][corners[k].c] = player THEN Halves(150)
                    ELSE IF b[corners[k].r][corners[k].c] = 3 - player THEN -Halves(150)
                    ELSE 0
    IN  bonus(1) + bonus(2) + bonus(3) + bonus(4)

\* this.dangerMap of part_001, in the order of corners
dangerMap == <<
    <<[r |-> 0, c |-> 1], [r |-> 1, c |-> 0], [r |-> 1, c |-> 1]>>,
    <<[r |-> 0, c |-> 6], [r |-> 1, c |-> 7], [r |-> 1, c |-> 6]>>,
    <<[r |-> 6, c |-> 0], [r |-> 7, c |-> 1], [r |-> 6, c |-> 1]>>,
    <<[r |-> 7, c |-> 6], [r |-> 6, c |-> 7], [r |-> 6, c |-> 6]>> >>

\* part 2 of evaluate in part_001: +-500 for a corner held, -+300 for each
\* disc next to an empty corner
cornerScoreV6(b, player) ==
    LET danger(k, j) ==
            LET dStone == b[dangerMap[k][j].r][dangerMap[k][j].c]
            IN  IF dStone = player THEN -Halves(300)
                ELSE IF dStone = 3 - player THEN Halves(300) ELSE 0
        bonus(k) ==
            LET stone == b[corners[k].r][corners[k].c]
            IN  IF stone = player THEN Halves(500)
                ELSE IF stone = 3 - player THEN -Halves(500)
                ELSE danger(k, 1) + danger(k, 2) + danger(k, 3)
    IN  bonus(1) + bonus(2) + bonus(3) + bonus(4)

\* UltimateAI.evaluate of the running file
evaluate(b, player) ==
    weightScore(b, player)
    + (IF prog = "v6" THEN cornerScoreV6(b, player) ELSE cornerScoreV5(b, player))
    + mobilityScore(b, player)

\* UltimateAI.evaluateFinal of the running file
evaluateFinal(b, player) ==
    (Cardinality({m \in (0..7) \X (0..7) : b[m[1]][m[2]] = player})
     - Cardinality({m \in (0..7) \X (0..7) : b[m[1]][m[2]] = 3 - player}))
    * Halves(IF prog = "v6" THEN 10000 ELSE 1000)

\* UltimateAI.minimax, with the loops of its two branches from the k-th move on
RECURSIVE minimax(_, _, _, _, _, _)
RECURSIVE maxLoop(_, _, _, _, _, _, _, _)
RECURSIVE minLoop(_, _, _, _, _, _, _, _)

maxLoop(b, moves, k, depth, alpha, beta, player, max) ==
    IF k > Len(moves) THEN max
    ELSE LET nb == execute(b, moves[k].r, moves[k].c, player)
             v == minimax(nb, depth - 1, alpha, beta, FALSE, player)
         IN  IF beta <= Max(alpha, v) THEN Max(max, v)
             ELSE maxLoop(b, moves, k + 1, depth, Max(alpha, v), beta, player, Max(max, v))

minLoop(b, moves, k, depth, alpha, beta, player, min) ==
    IF k > Len(moves) THEN min
    ELSE LET nb == execute(b, moves[k].r, moves[k].c, 3 - player)
             v == minimax(nb, depth - 1, alpha, beta, TRUE, player)
         IN  IF Min(beta, v) <= alpha THEN Min(min, v)
             ELSE minLoop(b, moves, k + 1, depth, alpha, Min(beta, v), player, Min(min, v))

\* minimax whose pass costs no depth
minimaxFreePass(b, depth, alpha, beta, isMax, player) ==
    IF depth = 0 THEN evaluate(b, player)
    ELSE LET curP == IF isMax THEN player ELSE 3 - player
             moves == getValidMoves(b, curP)
         IN  IF Len(moves) = 0
             THEN IF Len(getValidMoves(b, 3 - curP)) = 0
                  THEN evaluateFinal(b, player)
                  ELSE minimax(b, depth, alpha, beta, ~isMax, player)
             ELSE IF isMax
                  THEN maxLoop(b, moves, 1, depth, alpha, beta, player, -Infinity)
                  ELSE minLoop(b, moves, 1, depth, alpha, beta, player, Infinity)

minimax(b, depth, alpha, beta, isMax, player) ==
    IF depth = 0 THEN evaluate(b, player)
    ELSE LET curP == IF isMax THEN player ELSE 3 - player
             moves == getValidMoves(b, curP)
         IN  IF Len(moves) = 0
             THEN IF Len(getValidMoves(b, 3 - curP)) = 0
                  THEN evaluateFinal(b, player)
                  ELSE minimax(b, depth - 1, alpha, beta, ~isMax, player)
             ELSE IF isMax
                  THEN maxLoop(b, moves, 1, depth, alpha, beta, player, -Infinity)
                  ELSE minLoop(b, moves, 1, depth, alpha, beta, player, Infinity)

\* a clone that copies the outer array only: the rows are those of b
cloneOuter(b) == [board |-> b, shared |-> TRUE]

\* UltimateAI.clone, "b.map(r => [...r])": a new array of new rows; shared
\* tells whether a write to a cell of the copy reaches b
clone(b) == [board |-> [r \in 0..7 |-> [c \in 0..7 |-> b[r][c]]], shared |-> FALSE]

\* UltimateAI.minimax again, returning next to its value v how many of the
\* leaves it visited were valued by evaluate (heur) and by evaluateFinal
\* (final), and the board it was passed as the call leaves it (board)
RECURSIVE minimaxLeaves(_, _, _, _, _, _)
RECURSIVE maxLoopLeaves(_, _, _, _, _, _, _, _)
RECURSIVE minLoopLeaves(_, _, _, _, _, _, _, _)

maxLoopLeaves(b, moves, k, depth, alpha, beta, player, acc) ==
    IF k > Len(moves) THEN acc
    ELSE LET nb == clone(acc.board)
             t == minimaxLeaves(execute(nb.board, moves[k].r, moves[k].c, player),
                                depth - 1, alpha, beta, FALSE, player)
             acc2 == [v |-> Max(acc.v, t.v), heur |-> acc.heur + t.heur,
                      final |-> acc.final + t.final,
                      board |-> IF nb.shared THEN t.board ELSE acc.board]
         IN  IF beta <= Max(alpha, t.v) THEN acc2
             ELSE maxLoopLeaves(b, moves, k + 1, depth, Max(alpha, t.v), beta, player, acc2)

minLoopLeaves(b, moves, k, depth, alpha, beta, player, acc) ==
    IF k > Len(moves) THEN acc
    ELSE LET nb == clone(acc.board)
             t == minimaxLeaves(execute(nb.board, moves[k].r, moves[k].c, 3 - player),
                                depth - 1, alpha, beta, TRUE, player)
             acc2 == [v |-> Min(acc.v, t.v), heur |-> acc.heur + t.heur,
                      final |-> acc.final + t.final,
                      board |-> IF nb.shared THEN t.board ELSE acc.board]
         IN  IF Min(beta, t.v) <= alpha THEN acc2
             ELSE minLoopLeaves(b, moves, k + 1, depth, alpha, Min(beta, t.v), player, acc2)

minimaxLeaves(b, depth, alpha, beta, isMax, player) ==
    IF depth = 0 THEN [v |-> evaluate(b, player), heur |-> 1, final |-> 0, board |-> b]
    ELSE LET curP == IF isMax THEN player ELSE 3 - player
             moves == getValidMoves(b, curP)
         IN  IF Len(moves) = 0
             THEN IF Len(getValidMoves(b, 3 - curP)) = 0
                  THEN [v |-> evaluateFinal(b, player), heur |-> 0, final |-> 1,
                        board |-> b]
                  ELSE minimaxLeaves(b, depth - 1, alpha, beta, ~isMax, player)
             ELSE IF isMax
                  THEN maxLoopLeaves(b, moves, 1, depth, alpha, beta, player,
                                     [v |-> -Infinity, heur |-> 0, final |-> 0, board |-> b])
                  ELSE minLoopLeaves(b, moves, 1, depth, alpha, beta, player,
                                     [v |-> Infinity, heur |-> 0, final |-> 0, board |-> b])

\* "(empty <= 14) ? empty : 4" of ai-worker.js, ": 6" of part_001
maxDepthOf(empty) == IF empty <= 14 THEN empty ELSE IF prog = "v6" THEN 6 ELSE 4

\* a loop of getBestMove with "if (val >= alpha)"; C11 tells it from bestLoop
RECURSIVE bestLoopTies(_, _, _, _, _, _, _)
bestLoopTies(b, moves, k, maxDepth, alpha, player, bestMove) ==
    IF k > Len(moves) THEN bestMove
    ELSE LET nb == execute(b, moves[k].r, moves[k].c, player)
             val == minimax(nb, maxDepth - 1, alpha, Infinity, FALSE, player)
         IN  IF val >= alpha
             THEN bestLoopTies(b, moves, k + 1, maxDepth, val, player, moves[k])
             ELSE bestLoopTies(b, moves, k + 1, maxDepth, alpha, player, bestMove)

\* the loop "for (let m of moves)" of getBestMove from the k-th move on
RECURSIVE bestLoop(_, _, _, _, _, _, _)
bestLoop(b, moves, k, maxDepth, alpha, player, bestMove) ==
    IF k > Len(moves) THEN bestMove
    ELSE LET nb == execute(b, moves[k].r, moves[k].c, player)
             val == minimax(nb, maxDepth - 1, alpha, Infinity, FALSE, player)
         IN  IF val > alpha
             THEN bestLoop(b, moves, k + 1, maxDepth, val, player, moves[k])
             ELSE bestLoop(b, moves, k + 1, maxDepth, alpha, player, bestMove)

\* a getBestMove that returns null for "moves.length <= 1"; C10 tells it from
\* getBestMove
getBestMoveSkip(b, player) ==
    LET moves == getValidMoves(b, player)
        sorted == sortMoves(moves, weights)
    IN  IF Len(moves) <= 1 THEN null
        ELSE bestLoop(b, sorted, 1, maxDepthOf(countEmpty(b)), -Infinity, player, sorted[1])

\* the loop of getBestMove again, returning next to bestMove the leaves its
\* minimax calls visited and the board it was passed as the calls leave it
RECURSIVE bestLoopLeaves(_, _, _, _, _, _, _)
bestLoopLeaves(b, moves, k, maxDepth, alpha, player, acc) ==
    IF k > Len(moves) THEN acc
    ELSE LET nb == clone(acc.board)
             t == minimaxLeaves(execute(nb.board, moves[k].r, moves[k].c, player),
                                maxDepth - 1, alpha, Infinity, FALSE, player)
         IN  bestLoopLeaves(b, moves, k + 1, maxDepth,
                            IF t.v > alpha THEN t.v ELSE alpha, player,
                            [bestMove |-> IF t.v > alpha THEN moves[k] ELSE acc.bestMove,
                             heur |-> acc.heur + t.heur,
                             final |-> acc.final + t.final,
                             board |-> IF nb.shared THEN t.board ELSE acc.board])

\* getBestMove for a side that has a move, with the leaves it visited and the
\* board as it leaves it
getBestMoveLeaves(b, player) ==
    LET sorted == sortMoves(getValidMoves(b, player), weights)
    IN  bestLoopLeaves(b, sorted, 1, maxDepthOf(countEmpty(b)), -Infinity, player,
                       [bestMove |-> sorted[1], heur |-> 0, final |-> 0, board |-> b])

\* payload.board as getBestMove leaves it
boardLeft(b, player) ==
    IF Len(getValidMoves(b, player)) = 0 THEN b ELSE getBestMoveLeaves(b, player).board

\* UltimateAI.getBestMove (ai-worker.js, part_001): a cell {r, c}, or null
getBestMove(b, player) ==
    LET moves == getValidMoves(b, player)
        sorted == sortMoves(moves, weights)
    IN  IF Len(moves) = 0 THEN null
        ELSE bestLoop(b, sorted, 1, maxDepthOf(countEmpty(b)), -Infinity, player, sorted[1])

\* ------------------------------------------- positional weights, training

\* train of ai-worker.js at a cell of aiPlayer: the cell and its three mirror
\* cells take the update, the cell itself is then clamped
trainCellV5(w, r, c, update) ==
    LET added == [w EXCEPT ![r][c] = @ + update,
                           ![r][7 - c] = @ + update,
                           ![7 - r][c] = @ + update,
                           ![7 - r][7 - c] = @ + update]
    IN  [added EXCEPT ![r][c] = Max(-Halves(500), Min(Halves(500), @))]

\* train of part_001 at a cell of aiPlayer that copies nothing to the mirror cells
trainCellAlone(w, r, c, update) ==
    [w EXCEPT ![r][c] = Max(-Halves(200), Min(Halves(200), w[r][c] + update))]

\* train of part_001 at a cell of aiPlayer: the cell takes the clamped update,
\* its three mirror cells are set to the result
trainCellV6(w, r, c, update) ==
    LET set == [w EXCEPT ![r][c] = Max(-Halves(200), Min(Halves(200), w[r][c] + update))]
    IN  [set EXCEPT ![r][7 - c] = set[r][c],
                    ![7 - r][c] = set[r][c],
                    ![7 - r][7 - c] = set[r][c]]

\* the body of "for r, for c" at the k-th cell: "if (board[r][c] === aiPlayer) ..."
trainCell(w, b, aiPlayer, update, k) ==
    LET r == CellsRC[k].r
        c == CellsRC[k].c
    IN  IF b[r][c] # aiPlayer THEN w
        ELSE IF prog = "v6" THEN trainCellV6(w, r, c, update)
        ELSE trainCellV5(w, r, c, update)

\* "for r, for c" over the cells lo..hi in scan order (the first half of
\* them, then the rest)
RECURSIVE trainFrom(_, _, _, _, _, _)
trainFrom(w, b, aiPlayer, update, lo, hi) ==
    IF lo = hi THEN trainCell(w, b, aiPlayer, update, lo)
    ELSE Let(trainFrom(w, b, aiPlayer, update, lo, (lo + hi) \div 2),
             LAMBDA nw : trainFrom(nw, b, aiPlayer, update, ((lo + hi) \div 2) + 1, hi))

\* "sign * learningRate": learningRate is 1.5 in ai-worker.js, 1.0 in part_001
updateOf(won, aiPlayer) ==
    (IF won = aiPlayer THEN 1 ELSE -1) * (IF prog = "v6" THEN Halves(1) ELSE 3)

\* the weights UltimateAI.train leaves when its winner, won, is not 0
trainedWeights(w, b, won, aiPlayer) ==
    trainFrom(w, b, aiPlayer, updateOf(won, aiPlayer), 1, 64)

\* train that takes a draw for a game lost by aiPlayer
trainDrawn(w, n, st, b, won, aiPlayer) ==
    LET nw == trainedWeights(w, b, won, aiPlayer)
    IN  [weights |-> nw, totalGames |-> n + 1,
         stored |-> [weights |-> nw, totalGames |-> n + 1], size |-> TRUE]

\* UltimateAI.train on the engine state (w, n) and the storage st: the state
\* it leaves, and whether it returns a size (null on a draw)
train(w, n, st, b, won, aiPlayer) ==
    IF won = 0
    THEN [weights |-> w, totalGames |-> n, stored |-> st, size |-> FALSE]
    ELSE LET nw == trainedWeights(w, b, won, aiPlayer)
         IN  [weights |-> nw, totalGames |-> n + 1,
              stored |-> [weights |-> nw, totalGames |-> n + 1], size |-> TRUE]

\* reset that hands out the table the engine holds
resetKept(w, n, st) ==
    [weights |-> w, totalGames |-> 0, stored |-> [weights |-> w, totalGames |-> 0]]

\* UltimateAI.reset on the engine state (w, n) and the storage st: the weights
\* are a fresh copy of this.defaultWeights, a table nothing else writes
reset(w, n, st) ==
    LET nw == copyWeights(IF prog = "v5" THEN defaultWeightsV5 ELSE defaultWeightsV6)
    IN  [weights |-> nw, totalGames |-> 0, stored |-> [weights |-> nw, totalGames |-> 0]]

\* ------------------------------------------------------------- self-play

NoBoard == <<>>
NoCall == [op |-> "none"]
\* nothing has been saved since the script was loaded
NoData == [weights |-> NoBoard, totalGames |-> -1]

\* trainLoop's idx10to8
idx10to8(idx10) ==
    LET y == idx10 \div 10
        x == idx10 % 10
    IN  (y - 1) * 8 + (x - 1)

\* Math.round(a / 8)
jsRoundDiv8(a) == (a + 4) \div 8

\* Math.floor(a / 8) and a % 8 of JavaScript (the remainder has a's sign)
jsFloorDiv8(a) == a \div 8
jsRem8(a) == IF a >= 0 THEN a % 8 ELSE -((-a) % 8)

\* runTrainingLoop's board setup
startBoard ==
    [r \in 0..7 |-> [c \in 0..7 |->
        IF (r = 3 /\ c = 3) \/ (r = 4 /\ c = 4) THEN 2
        ELSE IF (r = 3 /\ c = 4) \/ (r = 4 /\ c = 3) THEN 1
        ELSE 0]]

\* "b>w ? 1 : (w>b ? 2 : 0)" over board.flat()
loopWinner(b) ==
    LET nb == Cardinality({m \in (0..7) \X (0..7) : b[m[1]][m[2]] = 1})
        nw == Cardinality({m \in (0..7) \X (0..7) : b[m[1]][m[2]] = 2})
    IN  IF nb > nw THEN 1 ELSE IF nw > nb THEN 2 ELSE 0

\* no message has reached the worker: "let isTraining = false", no loop called
NoWorker ==
    /\ isTraining = FALSE /\ inbox = <<>> /\ running = 0
    /\ loops = <<>> /\ saves = <<>> /\ posted = {} /\ sent = 0

\* the module has been loaded: "const game = new FastOthello()" has run reset(),
\* the positional-weight engine holds a copy of its default weights
InitFast ==
    /\ prog = "fast"
    /\ board = resetBoard /\ turn = 1 /\ passCount = 0 /\ history = <<>>
    /\ tboard = NoBoard /\ cur = 0 /\ tpass = 0
    /\ weights = NoBoard
    /\ seed \in 1..MaxSeed

InitLoop ==
    /\ prog \in {"v5", "v6"}
    /\ board = NoBoard /\ turn = 0 /\ passCount = 0 /\ history = <<>>
    /\ tboard = NoBoard /\ cur = 0 /\ tpass = 0
    /\ weights = copyWeights(IF prog = "v5" THEN defaultWeightsV5 ELSE defaultWeightsV6)
    /\ seed = 0

Init ==
    /\ InitFast \/ InitLoop
    /\ pc = "idle" /\ winner = 0 /\ plies = 0 /\ placed = 0 /\ last = NoCall
    /\ totalGames = 0 /\ stored = NoData /\ games = 0
    /\ NoWorker

fastFrame ==
    UNCHANGED <<prog, tboard, cur, tpass, weights, seed, totalGames, stored, games,
                isTraining, inbox, running, loops, saves, posted, sent>>
loopFrame ==
    UNCHANGED <<prog, board, turn, passCount, history, weights, seed, totalGames, stored,
                games, isTraining, inbox, running, loops, saves, posted, sent>>

\* trainLoop: "game.reset(); const history = [];"
Reset ==
    /\ prog = "fast" /\ pc = "idle"
    /\ games < MaxGames
    /\ board' = resetBoard /\ turn' = 1 /\ passCount' = 0
    /\ history' = <<>>
    /\ pc' = "play" /\ plies' = 0 /\ placed' = 0
    /\ last' = [op |-> "reset"]
    /\ UNCHANGED winner /\ fastFrame

\* one turn of "while (!game.isGameOver())" that ends in game.makeMove(move10)
Ply(move10) ==
    \E after \in {makeMove(board, turn, passCount, move10)} :
        /\ history' = Append(history, [board |-> getFlatBoard64(board), turn |-> turn])
        /\ board' = after.board /\ turn' = after.turn /\ passCount' = after.passCount
        /\ plies' = plies + 1
        /\ placed' = IF move10 = PASS THEN placed ELSE placed + 1
        /\ last' = [op |-> "makeMove", move |-> move10, mover |-> turn,
                    before |-> board, passBefore |-> passCount]
        /\ UNCHANGED <<pc, winner>> /\ fastFrame

Playing == prog = "fast" /\ pc = "play" /\ ~isGameOver(board, passCount)

\* moves10.length === 0: move10 stays -1
PlyPass ==
    /\ Playing
    /\ Len(getLegalMoves10(board, turn)) = 0
    /\ Ply(PASS)

\* Math.random() < 0.1: a uniformly drawn legal move
PlyRandom ==
    /\ Playing
    /\ plies < MaxRandomPly /\ games < MaxExploreGames
    /\ \E moves10 \in {getLegalMoves10(board, turn)} :
           \E i \in 1..Len(moves10) : Ply(moves10[i])

\* otherwise: ai.getBestMove on the flat board, converted back to 10x10
PlyBest ==
    /\ Playing
    /\ Len(getLegalMoves10(board, turn)) > 0
    /\ \E aiMoveIdx8 \in {getBestMoveN(getFlatBoard64(board), turn)} :
           LET r == jsFloorDiv8(aiMoveIdx8)
               c == jsRem8(aiMoveIdx8)
           IN  Ply((r + 1) * 10 + (c + 1))

\* the loop is left: "const result = game.getResult()"
GameEnd ==
    /\ prog = "fast" /\ pc = "play" /\ isGameOver(board, passCount)
    /\ winner' = getResult(board)
    /\ pc' = "over"
    /\ UNCHANGED <<board, turn, passCount, history, plies, placed, last>> /\ fastFrame

\* trainLoop after the game: "ai.train(history, result)", "gamesCount++", and
\* the loop goes round
FastTrain ==
    /\ prog = "fast" /\ pc = "over"
    /\ \E t \in {trainN(weights, history, winner)} :
           /\ weights' = t.w
           /\ last' = [op |-> "train", history |-> history, result |-> winner,
                       trace |-> t.trace, before |-> weights]
    /\ games' = games + 1
    /\ pc' = "idle"
    /\ UNCHANGED <<prog, board, turn, passCount, history, tboard, cur, tpass, winner,
                   seed, plies, placed, totalGames, stored>>
    /\ UNCHANGED workerVars

\* runTrainingLoop: a new game is set up
StartGame ==
    /\ prog \in {"v5", "v6"} /\ pc = "idle"
    /\ games < MaxGames
    /\ tboard' = startBoard /\ cur' = 1 /\ tpass' = 0
    /\ pc' = "play" /\ plies' = 0 /\ placed' = 0
    /\ last' = [op |-> "start"]
    /\ UNCHANGED winner /\ loopFrame

InLoop == prog \in {"v5", "v6"} /\ pc = "play"

\* a loop that breaks at "passCount >= 3"; C7 tells it from LoopPass
LoopPassThird ==
    /\ prog \in {"v5", "v6"} /\ pc = "play"
    /\ Len(getValidMoves(tboard, cur)) = 0
    /\ tpass + 1 < 3
    /\ tpass' = tpass + 1
    /\ cur' = 3 - cur
    /\ plies' = plies + 1
    /\ last' = [op |-> "pass", mover |-> cur, before |-> tboard, passBefore |-> tpass]
    /\ UNCHANGED <<tboard, pc, winner, placed>>
    /\ loopFrame

\* moves.length === 0 and passCount < 2 after the increment
LoopPass ==
    /\ InLoop
    /\ Len(getValidMoves(tboard, cur)) = 0
    /\ tpass + 1 < 2
    /\ tpass' = tpass + 1
    /\ cur' = 3 - cur
    /\ plies' = plies + 1
    /\ last' = [op |-> "pass", mover |-> cur, before |-> tboard, passBefore |-> tpass]
    /\ UNCHANGED <<tboard, pc, winner, placed>> /\ loopFrame

\* moves.length === 0 and passCount >= 2: break, then the winner is counted
LoopBreak ==
    /\ InLoop
    /\ Len(getValidMoves(tboard, cur)) = 0
    /\ tpass + 1 >= 2
    /\ tpass' = tpass + 1
    /\ winner' = loopWinner(tboard)
    /\ pc' = "over"
    /\ last' = [op |-> "pass", mover |-> cur, before |-> tboard, passBefore |-> tpass]
    /\ UNCHANGED <<tboard, cur, plies, placed>> /\ loopFrame

\* runTrainingLoop after the game: "if (winner !== 0) await ai.train(board,
\* winner, winner)", "gamesInSession++", and the loop goes round
LoopTrain ==
    /\ prog \in {"v5", "v6"} /\ pc = "over"
    /\ \E t \in {IF winner # 0
                  THEN train(weights, totalGames, stored, tboard, winner, winner)
                  ELSE [weights |-> weights, totalGames |-> totalGames,
                        stored |-> stored, size |-> FALSE]} :
           /\ weights' = t.weights
           /\ totalGames' = t.totalGames
           /\ stored' = t.stored
           /\ last' = [op |-> "train", board |-> tboard, winner |-> winner,
                       aiPlayer |-> winner, size |-> t.size,
                       before |-> [weights |-> weights, totalGames |-> totalGames,
                                   stored |-> stored]]
    /\ games' = games + 1
    /\ pc' = "idle"
    /\ UNCHANGED <<prog, board, turn, passCount, history, tboard, cur, tpass, winner,
                   seed, plies, placed>>
    /\ UNCHANGED workerVars

LoopMove(m) ==
    \E move \in {m} :
    /\ tpass' = 0
    /\ tboard' = execute(tboard, move.r, move.c, cur)
    /\ cur' = 3 - cur
    /\ plies' = plies + 1
    /\ placed' = placed + 1
    /\ last' = [op |-> "execute", move |-> move, mover |-> cur,
                before |-> tboard, passBefore |-> tpass]
    /\ UNCHANGED <<pc, winner>> /\ loopFrame

\* Math.random() < p: one of the first three moves in weight order
LoopExplore ==
    /\ InLoop
    /\ plies < MaxExplorePly /\ games < MaxExploreGames
    /\ \E moves \in {sortMoves(getValidMoves(tboard, cur), weights)} :
           LET topN == SubSeq(moves, 1, IF Len(moves) < 3 THEN Len(moves) ELSE 3)
           IN  \E i \in 1..Len(topN) : LoopMove(topN[i])

\* otherwise: moves[0] in weight order
LoopExploit ==
    /\ InLoop
    /\ \E moves \in {getValidMoves(tboard, cur)} :
           /\ Len(moves) > 0
           /\ LoopMove(sortMoves(moves, weights)[1])

Next ==
    \/ Reset \/ PlyPass \/ PlyRandom \/ PlyBest \/ GameEnd \/ FastTrain
    \/ StartGame \/ LoopPass \/ LoopBreak \/ LoopExplore \/ LoopExploit \/ LoopTrain

Spec == Init /\ [][Next]_vars

\* the loops are synchronous code: once started they run on
FairSpec == Spec /\ WF_vars(Next)

\* ---------------------------------------------- the engines called directly
\* A caller other than the self-play loops holds an engine and applies moves to
\* it at cells of its own choosing, legal or not.

\* calls made by the direct caller
MaxCalls == 2

ApiInit ==
    /\ prog \in {"fast", "v5", "v6"}
    /\ pc = "api"
    /\ IF prog = "fast"
       THEN /\ board = resetBoard /\ turn = 1 /\ tboard = NoBoard /\ cur = 0
            /\ weights = NoBoard /\ seed = 1
       ELSE /\ board = NoBoard /\ turn = 0 /\ tboard = startBoard /\ cur = 1
            /\ weights = copyWeights(IF prog = "v5" THEN defaultWeightsV5
                                                    ELSE defaultWeightsV6)
            /\ seed = 0
    /\ passCount = 0 /\ history = <<>> /\ tpass = 0
    /\ winner = 0 /\ plies = 0 /\ placed = 0 /\ last = NoCall
    /\ totalGames = 0 /\ stored = NoData /\ games = 0
    /\ NoWorker

\* game.makeMove(idx) for PASS or any cell of the 8x8 area; no statement of
\* makeMove throws, and every index it reads lies inside the 100 cells
ApiMakeMove ==
    /\ prog = "fast" /\ pc = "api" /\ plies < MaxCalls
    /\ \E idx \in {Playable[k] : k \in 1..64} \cup {PASS} :
           \E after \in {makeMove(board, turn, passCount, idx)} :
               /\ board' = after.board /\ turn' = after.turn
               /\ passCount' = after.passCount
               /\ plies' = plies + 1
               /\ placed' = IF idx = PASS THEN placed ELSE placed + 1
               /\ last' = [op |-> "makeMove", move |-> idx, mover |-> turn,
                           before |-> board, passBefore |-> passCount,
                           threw |-> FALSE]
    /\ UNCHANGED <<pc, winner, history>> /\ fastFrame

\* ai.execute(b, r, c, p) for any cell, the caller alternating the sides; no
\* statement of execute throws
ApiExecute ==
    /\ prog \in {"v5", "v6"} /\ pc = "api" /\ plies < MaxCalls
    /\ \E r \in 0..7, c \in 0..7 :
           /\ tboard' = execute(tboard, r, c, cur)
           /\ last' = [op |-> "execute", move |-> [r |-> r, c |-> c], mover |-> cur,
                       before |-> tboard, passBefore |-> tpass, threw |-> FALSE]
    /\ cur' = 3 - cur
    /\ plies' = plies + 1
    /\ placed' = placed + 1
    /\ UNCHANGED <<pc, winner, tpass>> /\ loopFrame

ApiNext == ApiMakeMove \/ ApiExecute

ApiSpec == ApiInit /\ [][ApiNext]_vars

\* ------------------------------------------------- the worker asked for moves
\* GET_MOVE messages reach the worker with a board of the sender's choosing.

\* GET_MOVE messages the worker is sent
MaxRequests == 1

\* GET_MOVE messages the sender repeats
MaxRepeats == 1

\* empty cells of a late-game board sent in a GET_MOVE message
MaxHoles == 3

\* fillings of the late-game boards sent
MaxPattern == 2

\* the cells among which the empty cells of a late-game board are taken
HoleCells == {<<0, 0>>, <<0, 1>>, <<1, 1>>, <<2, 6>>, <<3, 4>>, <<4, 0>>, <<7, 5>>, <<7, 7>>}

\* the colour (1 black, 2 white) of cell (r, c) in filling k
fillColour(k, r, c) == IF (r * r + c * k + ((r * c) \div 3) + k) % 3 = 0 THEN 2 ELSE 1

\* a late-game board: filling k with the cells of holes empty
lateBoard(k, holes) ==
    [r \in 0..7 |-> [c \in 0..7 |-> IF <<r, c>> \in holes THEN 0 ELSE fillColour(k, r, c)]]

\* a board after a wipe-out: every cell holds colour p but those of holes
wipedBoard(p, holes) ==
    [r \in 0..7 |-> [c \in 0..7 |-> IF <<r, c>> \in holes THEN 0 ELSE p]]

\* an early board: the four opening discs with their upper left cell at o
earlyBoard(o) ==
    [r \in 0..7 |-> [c \in 0..7 |->
        IF (r = o[1] /\ c = o[2]) \/ (r = o[1] + 1 /\ c = o[2] + 1) THEN 2
        ELSE IF (r = o[1] /\ c = o[2] + 1) \/ (r = o[1] + 1 /\ c = o[2]) THEN 1
        ELSE 0]]

\* payload.board of the GET_MOVE messages sent, as board[r][c] of 0, 1, 2
PayloadBoards ==
    {lateBoard(k, holes) :
        k \in 1..MaxPattern,
        holes \in {h \in SUBSET HoleCells : Cardinality(h) <= MaxHoles}}
    \cup {earlyBoard(o) : o \in {<<0, 0>>, <<0, 6>>, <<6, 0>>, <<6, 6>>}}
    \cup {wipedBoard(p, h) : p \in {1, 2}, h \in {{<<0, 0>>}, {<<3, 4>>, <<7, 7>>}}}

\* the same board as the 64-element array the N-tuple worker is sent
flatOf(b) ==
    [i \in 0..63 |-> IF b[i \div 8][i % 8] = 1 THEN 1
                     ELSE IF b[i \div 8][i % 8] = 2 THEN -1 ELSE 0]

\* games of the sessions before this one, whose table load() reads
SessionGamesV5 == 65
SessionGamesV6 == 60

\* n calls of train for a game on board b won by won, one after the other
\* (the first half of them, then the rest)
RECURSIVE trainTimes(_, _, _, _, _)
trainTimes(w, b, won, aiPlayer, n) ==
    IF n = 0 THEN w
    ELSE IF n = 1 THEN trainedWeights(w, b, won, aiPlayer)
    ELSE Let(trainTimes(w, b, won, aiPlayer, n \div 2),
             LAMBDA nw : trainTimes(nw, b, won, aiPlayer, n - (n \div 2)))

\* this.weights after ai.load(): the defaults when nothing was stored, else the
\* table of earlier sessions in which the engine, playing black, was told of n
\* won games that ended on lateBoard(1, {})
loadedWeights(n) ==
    trainTimes(copyWeights(IF prog = "v5" THEN defaultWeightsV5 ELSE defaultWeightsV6),
               lateBoard(1, {}), 1, 1, n)

SessionGames == {0, IF prog = "v5" THEN SessionGamesV5 ELSE SessionGamesV6}

\* the worker script has been loaded: part_000 holds "let ai = null" (seed 0);
\* the other two hold a constructed UltimateAI and have handled INIT
MoveInit ==
    /\ prog \in {"fast", "v5", "v6"}
    /\ pc = "serve"
    /\ IF prog = "fast"
       THEN /\ board = resetBoard /\ turn = 1 /\ weights = NoBoard
            /\ totalGames = 0 /\ stored = NoData
       ELSE /\ board = NoBoard /\ turn = 0
            /\ \E n \in SessionGames :
                   /\ weights = loadedWeights(n)
                   /\ totalGames = n
            /\ stored = [weights |-> weights, totalGames |-> totalGames]
    /\ seed = 0
    /\ tboard = NoBoard /\ cur = 0 /\ tpass = 0
    /\ passCount = 0 /\ history = <<>>
    /\ winner = 0 /\ plies = 0 /\ placed = 0 /\ last = NoCall
    /\ games = 0
    /\ NoWorker

moveFrame ==
    UNCHANGED <<prog, pc, board, turn, passCount, history, tboard, cur, tpass, winner,
                weights, placed, totalGames, stored, games,
                isTraining, inbox, running, loops, saves, posted, sent>>

\* part_000, case 'INIT': "ai = new UltimateAI()"
InitAi ==
    /\ prog = "fast" /\ pc = "serve"
    /\ seed' \in 1..MaxSeed
    /\ last' = [op |-> "init"]
    /\ UNCHANGED plies /\ moveFrame

\* part_000, case 'GET_MOVE' with "if (!ai) return": nothing is posted
GetMoveNoAi ==
    /\ prog = "fast" /\ pc = "serve" /\ seed = 0
    /\ plies < MaxRequests
    /\ last' = [op |-> "ignored"]
    /\ plies' = plies + 1
    /\ UNCHANGED seed /\ moveFrame

\* part_000, case 'GET_MOVE': MOVE_DECIDED carries ai.getBestMove(board, turn)
GetMoveN ==
    /\ prog = "fast" /\ pc = "serve" /\ seed # 0
    /\ plies < MaxRequests
    /\ plies' = plies + 1
    /\ \E b \in PayloadBoards, t \in {1, -1} :
           \E flat \in {flatOf(b)} :
               last' = [op |-> "getBestMove", board |-> flat, player |-> t,
                        move |-> getBestMoveN(flat, t),
                        boardAfter |-> boardLeftN(flat, t),
                        held |-> [weights |-> weights, seed |-> seed],
                        again |-> FALSE, first |-> -1]
    /\ UNCHANGED seed /\ moveFrame

\* part_000: the GET_MOVE just answered is sent once more
GetMoveAgainN ==
    /\ prog = "fast" /\ pc = "serve" /\ seed # 0
    /\ last.op = "getBestMove"
    /\ plies < MaxRequests + MaxRepeats
    /\ plies' = plies + 1
    /\ last' = [op |-> "getBestMove", board |-> last.board, player |-> last.player,
                move |-> getBestMoveN(last.board, last.player),
                boardAfter |-> boardLeftN(last.board, last.player),
                held |-> [weights |-> weights, seed |-> seed],
                again |-> TRUE, first |-> last.move]
    /\ UNCHANGED seed /\ moveFrame

\* ai-worker.js / part_001, 'GET_MOVE': MOVE_RESULT carries
\* ai.getBestMove(payload.board, payload.player)
GetMoveW ==
    /\ prog \in {"v5", "v6"} /\ pc = "serve"
    /\ plies < MaxRequests
    /\ plies' = plies + 1
    /\ \E b \in PayloadBoards, p \in {1, 2} :
           last' = [op |-> "getBestMove", board |-> b, player |-> p,
                    move |-> getBestMove(b, p),
                    boardAfter |-> boardLeft(b, p),
                    held |-> [weights |-> weights, seed |-> seed],
                    again |-> FALSE, first |-> null]
    /\ UNCHANGED seed /\ moveFrame

\* ai-worker.js / part_001: the GET_MOVE just answered is sent once more
GetMoveAgainW ==
    /\ prog \in {"v5", "v6"} /\ pc = "serve"
    /\ last.op = "getBestMove"
    /\ plies < MaxRequests + MaxRepeats
    /\ plies' = plies + 1
    /\ last' = [op |-> "getBestMove", board |-> last.board, player |-> last.player,
                move |-> getBestMove(last.board, last.player),
                boardAfter |-> boardLeft(last.board, last.player),
                held |-> [weights |-> weights, seed |-> seed],
                again |-> TRUE, first |-> last.move]
    /\ UNCHANGED seed /\ moveFrame

MoveNext ==
    \/ InitAi \/ GetMoveNoAi \/ GetMoveN \/ GetMoveW
    \/ GetMoveAgainN \/ GetMoveAgainW

MoveSpec == MoveInit /\ [][MoveNext]_vars

\* ------------------------------------------------ the worker told of games
\* TRAIN_END_GAME messages reach the worker with the final board of a game
\* played against it; INIT has been handled, so the storage holds what the
\* engine holds.

\* TRAIN_END_GAME and RESET_BRAIN messages the worker is sent
MaxTrain == 3

\* a finished board with 32 discs of each colour
drawnBoard == [r \in 0..7 |-> [c \in 0..7 |-> IF r < 4 THEN 1 ELSE 2]]

\* payload.board of the TRAIN_END_GAME messages sent
TrainBoards == {lateBoard(1, {}), drawnBoard, wipedBoard(2, {<<0, 0>>})}

\* INIT has been handled: ai.load() has read the table or saved the defaults
TrainInit ==
    /\ prog \in {"v5", "v6"}
    /\ pc = "serve"
    /\ board = NoBoard /\ turn = 0
    /\ \E n \in SessionGames :
           /\ weights = loadedWeights(n)
           /\ totalGames = n
    /\ stored = [weights |-> weights, totalGames |-> totalGames]
    /\ seed = 0 /\ games = 0
    /\ tboard = NoBoard /\ cur = 0 /\ tpass = 0
    /\ passCount = 0 /\ history = <<>>
    /\ winner = 0 /\ plies = 0 /\ placed = 0
    /\ last = [op |-> "none", resets |-> 0]
    /\ NoWorker

trainFrame ==
    UNCHANGED <<prog, pc, board, turn, passCount, history, tboard, cur, tpass, winner,
                seed, placed, games, isTraining, inbox, running, loops, saves, posted, sent>>

\* 'TRAIN_END_GAME': "await ai.train(payload.board, payload.winner,
\* payload.aiPlayer)"; DATA_UPDATED is posted when a size came back
TrainEndGame ==
    /\ pc = "serve" /\ plies < MaxTrain
    /\ plies' = plies + 1
    /\ \E b \in TrainBoards, won \in {0, 1, 2}, aiPlayer \in {1, 2} :
           \E t \in {train(weights, totalGames, stored, b, won, aiPlayer)} :
               /\ weights' = t.weights
               /\ totalGames' = t.totalGames
               /\ stored' = t.stored
               /\ last' = [op |-> "train", board |-> b, winner |-> won,
                           aiPlayer |-> aiPlayer, size |-> t.size,
                           resets |-> last.resets,
                           before |-> [weights |-> weights, totalGames |-> totalGames,
                                       stored |-> stored]]
    /\ trainFrame

\* 'RESET_BRAIN': ai.reset() copies the defaults, zeroes totalGames and saves
ResetBrain ==
    /\ pc = "serve" /\ plies < MaxTrain
    /\ plies' = plies + 1
    /\ \E t \in {reset(weights, totalGames, stored)} :
           /\ weights' = t.weights
           /\ totalGames' = t.totalGames
           /\ stored' = t.stored
    /\ last' = [op |-> "reset", resets |-> last.resets + 1,
                before |-> [weights |-> weights, totalGames |-> totalGames]]
    /\ trainFrame

TrainNext == TrainEndGame \/ ResetBrain

TrainSpec == TrainInit /\ [][TrainNext]_vars

\* ------------------------------------------------ the worker and its loops
\* The worker script has been loaded and INIT has been handled. Messages are
\* posted to the worker while it serves and while a training loop plays; the
\* event loop calls onmessage, a timer callback or the continuation of an
\* await only when no function is executing. The loops take the exploiting
\* branch of the move choice in every ply.

\* messages posted to the worker in a run
MaxMessages == 3

\* messages posted to the worker that wait for onmessage at one time
MaxInbox == 1

\* START_TRAINING messages posted to the worker in a run
MaxLoops == 2

\* saveData transactions that end without completing in a run
MaxFailures == 1

\* trainLoop posts PROGRESS and yields every 100 games; here every
\* ProgressEvery games
ProgressEvery == 1

\* runTrainingLoop posts TRAIN_UPDATE every 10 games; here every UpdateEvery
\* games
UpdateEvery == 2

\* payload.batchSize of the START_TRAINING messages sent to part_000
MaxBatch == 2

\* games of the earlier self-play session whose table INIT loaded
SessionPlayedV5 == 9
SessionPlayedV6 == 16

\* turns of "while(true)" in one game of runTrainingLoop: no more than 60
\* moves, and fewer passes than moves
MaxTurns == 128

\* one turn of runTrainingLoop's "while(true)" with the move moves[0], on the
\* game [board, cur, pass, over]
playTurn(g, w) ==
    IF g.over THEN g
    ELSE Let(getValidMoves(g.board, g.cur),
             LAMBDA moves :
                 IF Len(moves) = 0
                 THEN IF g.pass + 1 >= 2
                      THEN [g EXCEPT !.pass = g.pass + 1, !.over = TRUE]
                      ELSE [g EXCEPT !.pass = g.pass + 1, !.cur = 3 - g.cur]
                 ELSE Let(sortMoves(moves, w)[1],
                          LAMBDA move :
                              [board |-> execute(g.board, move.r, move.c, g.cur),
                               cur |-> 3 - g.cur, pass |-> 0, over |-> FALSE]))

\* the turns lo..hi of a game, one after the other (the first half of them,
\* then the rest)
RECURSIVE playTurns(_, _, _, _)
playTurns(g, w, lo, hi) ==
    IF lo = hi THEN playTurn(g, w)
    ELSE Let(playTurns(g, w, lo, (lo + hi) \div 2),
             LAMBDA half : playTurns(half, w, ((lo + hi) \div 2) + 1, hi))

\* the final board of one game of runTrainingLoop played with the table w
playedBoard(w) ==
    playTurns([board |-> startBoard, cur |-> 1, pass |-> 0, over |-> FALSE],
              w, 1, MaxTurns).board

\* the table after one more game of runTrainingLoop: train on the final board
\* for the winner unless the game is drawn
playedOnce(w) ==
    Let(playedBoard(w),
        LAMBDA b : IF loopWinner(b) = 0 THEN w
                   ELSE trainedWeights(w, b, loopWinner(b), loopWinner(b)))

\* the table after the games lo..hi of a session (the first half of them,
\* then the rest)
RECURSIVE playedTimes(_, _, _)
playedTimes(w, lo, hi) ==
    IF lo > hi THEN w
    ELSE IF lo = hi THEN playedOnce(w)
    ELSE Let(playedTimes(w, lo, (lo + hi) \div 2),
             LAMBDA half : playedTimes(half, ((lo + hi) \div 2) + 1, hi))

\* the table a session of n games left in the storage
sessionWeights(n) ==
    playedTimes(copyWeights(IF prog = "v5" THEN defaultWeightsV5 ELSE defaultWeightsV6),
                1, n)

\* the sessions INIT may have loaded: none, or one of that many games
SessionPlayed == {0, IF prog = "v5" THEN SessionPlayedV5 ELSE SessionPlayedV6}

\* ------------------------------------------------ sessions of self-play
\* runTrainingLoop alone: games of a session that follow earlier games of it,
\* no message arriving in between.

\* games of the session played so far: in each the draw of "Math.random() <
\* 0.2" (0.15 in part_001) took the second of the top three at the first move
\* and moves[0] at every other move
SessionExploredV5 == 98
SessionExploredV6 == 22

\* the board after the first move of such a game: the second move in weight
\* order, executed for black on the starting board
openedBoard(w) ==
    Let(sortMoves(getValidMoves(startBoard, 1), w)[2],
        LAMBDA move : execute(startBoard, move.r, move.c, 1))

\* the final board of such a game played with the table w
exploredBoard(w) ==
    playTurns([board |-> openedBoard(w), cur |-> 2, pass |-> 0, over |-> FALSE],
              w, 2, MaxTurns).board

\* the table after the games lo..hi of such a session: train on each final
\* board for the winner unless the game is drawn (the first half of the games,
\* then the rest)
RECURSIVE exploredTimes(_, _, _)
exploredTimes(w, lo, hi) ==
    IF lo > hi THEN w
    ELSE IF lo = hi
         THEN Let(exploredBoard(w),
                  LAMBDA b : IF loopWinner(b) = 0 THEN w
                             ELSE trainedWeights(w, b, loopWinner(b), loopWinner(b)))
    ELSE Let(exploredTimes(w, lo, (lo + hi) \div 2),
             LAMBDA half : exploredTimes(half, ((lo + hi) \div 2) + 1, hi))

\* START_TRAINING has been handled after INIT found nothing stored, and
\* runTrainingLoop is about to set up its next game: the first of the session,
\* or the one after the games played so far, none of which was drawn
PlayInit ==
    /\ prog \in {"v5", "v6"}
    /\ pc = "idle"
    /\ board = NoBoard /\ turn = 0 /\ passCount = 0 /\ history = <<>>
    /\ tboard = NoBoard /\ cur = 0 /\ tpass = 0
    /\ \E n \in {0, IF prog = "v5" THEN SessionExploredV5 ELSE SessionExploredV6} :
           \E w \in {exploredTimes(copyWeights(IF prog = "v5" THEN defaultWeightsV5
                                                ELSE defaultWeightsV6), 1, n)} :
               /\ weights = w
               /\ totalGames = n
               /\ stored = IF n = 0 THEN NoData ELSE [weights |-> w, totalGames |-> n]
    /\ seed = 0
    /\ winner = 0 /\ plies = 0 /\ placed = 0 /\ last = NoCall
    /\ games = 0
    /\ NoWorker

PlayNext == StartGame \/ LoopPass \/ LoopBreak \/ LoopExplore \/ LoopExploit \/ LoopTrain

PlaySpec == PlayInit /\ [][PlayNext]_vars

\* payload of the GET_MOVE messages sent: a late board, black to move
GetMoveBoard == lateBoard(1, {<<0, 0>>})

\* payload.board of the TRAIN_END_GAME messages sent; winner and aiPlayer are 1
EndGameBoard == lateBoard(1, {})

MessageTypes ==
    {"START_TRAINING", "STOP_TRAINING", "GET_MOVE", "RESET_BRAIN", "TRAIN_END_GAME"}

\* the script has been loaded and INIT handled: part_000 holds a constructed
\* UltimateAI (its random table the first of those told apart); in the other two ai.load() has read the stored table, or found
\* none and saved the defaults, or found none and waits for a save of the
\* defaults that has ended without completing
WorkerInit ==
    /\ prog \in {"fast", "v5", "v6"}
    /\ pc = "serve"
    /\ IF prog = "fast"
       THEN /\ board = resetBoard /\ turn = 1 /\ weights = NoBoard
            /\ seed = 1
            /\ totalGames = 0 /\ stored = NoData
            /\ saves = <<>>
       ELSE /\ board = NoBoard /\ turn = 0
            /\ \E n \in SessionPlayed :
                   \E w \in {sessionWeights(n)} :
                       /\ weights = w
                       /\ totalGames = n
            /\ \/ /\ stored = [weights |-> weights, totalGames |-> totalGames]
                  /\ saves = <<>>
               \/ /\ totalGames = 0
                  /\ stored = NoData
                  /\ saves = <<[by |-> 0, then |-> "READY",
                                data |-> [weights |-> weights, totalGames |-> 0],
                                state |-> "failed"]>>
            /\ seed = 0
    /\ tboard = NoBoard /\ cur = 0 /\ tpass = 0
    /\ passCount = 0 /\ history = <<>>
    /\ winner = 0 /\ plies = 0 /\ placed = 0 /\ last = NoCall
    /\ games = 0
    /\ isTraining = FALSE /\ inbox = <<>> /\ running = 0
    /\ loops = <<>> /\ posted = {} /\ sent = 0

gameVars == <<board, turn, passCount, history, tboard, cur, tpass, winner, plies, placed>>
aiVars == <<weights, seed, totalGames, stored>>

\* the event loop calls onmessage whatever is executing
canHandleAlways(r) == TRUE

\* the event loop calls onmessage only when no function is executing
canHandle(r) == r = 0

\* a caller's postMessage to the worker, while the worker is between tasks or
\* as a game of a loop begins
PostOf(type) ==
    /\ sent < MaxMessages /\ Len(inbox) < MaxInbox
    /\ running = 0 \/ (pc = "play" /\ plies = 0)
    /\ IF type = "START_TRAINING"
       THEN Len(loops) + Len(SelectSeq(inbox, LAMBDA m : m.type = type)) < MaxLoops
       ELSE Len(loops) > 0
    /\ type = "TRAIN_END_GAME" => prog # "fast"
    /\ inbox' = Append(inbox, [type |-> type])
    /\ sent' = sent + 1
    /\ UNCHANGED <<prog, pc, games, last, isTraining, running, loops, saves, posted>>
    /\ UNCHANGED gameVars /\ UNCHANGED aiVars

Post == \E type \in MessageTypes : PostOf(type)

\* onmessage is called for the oldest message of the given type
Handling(type) ==
    /\ canHandle(running)
    /\ inbox # <<>> /\ Head(inbox).type = type
    /\ inbox' = Tail(inbox)
    /\ UNCHANGED <<prog, sent>> /\ UNCHANGED gameVars

\* a loop that has just been called
NewLoop(batchSize) ==
    [at |-> "run", games |-> 0, batchSize |-> batchSize, trained |-> 0,
     stopSeen |-> FALSE, late |-> FALSE, played |-> FALSE,
     table |-> NoBoard, calls |-> 0]

\* 'START_TRAINING': "isTraining = true", and the loop is called; it runs to
\* its first await before onmessage returns
HandleStart ==
    /\ Handling("START_TRAINING")
    /\ isTraining' = TRUE
    /\ loops' = Append(loops, NewLoop(IF prog = "fast" THEN MaxBatch ELSE 0))
    /\ running' = Len(loops) + 1
    /\ pc' = "idle" /\ games' = 0
    /\ last' = [op |-> "START_TRAINING"]
    /\ UNCHANGED <<saves, posted>> /\ UNCHANGED aiVars

\* 'STOP_TRAINING': "isTraining = false"
HandleStop ==
    /\ Handling("STOP_TRAINING")
    /\ isTraining' = FALSE
    /\ loops' = [l \in DOMAIN loops |->
                    IF loops[l].at = "done" THEN loops[l]
                    ELSE [loops[l] EXCEPT !.stopSeen = TRUE]]
    /\ last' = [op |-> "STOP_TRAINING"]
    /\ UNCHANGED <<pc, games, running, saves, posted>> /\ UNCHANGED aiVars

\* 'GET_MOVE' that answers only when no save has failed
HandleGetMoveSaved ==
    /\ Handling("GET_MOVE")
    /\ \E failed \in {Len(SelectSeq(saves, LAMBDA s : s.state = "failed")) > 0} :
           /\ posted' = posted \cup {[type |-> IF failed THEN "ERROR" ELSE "MOVE_RESULT",
                                      by |-> 0]}
           /\ last' = [op |-> "GET_MOVE", board |-> GetMoveBoard, player |-> 1,
                       answers |-> IF failed THEN <<>>
                                   ELSE IF prog = "fast"
                                   THEN <<getBestMoveN(flatOf(GetMoveBoard), 1)>>
                                   ELSE <<getBestMove(GetMoveBoard, 1)>>]
    /\ UNCHANGED <<pc, games, isTraining, running, loops, saves>> /\ UNCHANGED aiVars

\* 'GET_MOVE': ai.getBestMove on the payload, posted as MOVE_RESULT
\* (MOVE_DECIDED in part_000)
HandleGetMove ==
    /\ Handling("GET_MOVE")
    /\ posted' = posted \cup {[type |-> IF prog = "fast" THEN "MOVE_DECIDED"
                                         ELSE "MOVE_RESULT", by |-> 0]}
    /\ \E move \in {IF prog = "fast" THEN getBestMoveN(flatOf(GetMoveBoard), 1)
                     ELSE getBestMove(GetMoveBoard, 1)} :
           last' = [op |-> "GET_MOVE", board |-> GetMoveBoard, player |-> 1,
                    answers |-> <<move>>]
    /\ UNCHANGED <<pc, games, isTraining, running, loops, saves>> /\ UNCHANGED aiVars

\* 'RESET_BRAIN': in part_000 a new UltimateAI and DATA_UPDATED; in the other
\* two "await ai.reset()", READY once the save has completed
HandleReset ==
    /\ Handling("RESET_BRAIN")
    /\ IF prog = "fast"
       THEN /\ seed' \in 1..MaxSeed
            /\ weights' = NoBoard
            /\ posted' = posted \cup {[type |-> "DATA_UPDATED", by |-> 0]}
            /\ UNCHANGED <<totalGames, stored, saves>>
       ELSE /\ \E t \in {reset(weights, totalGames, stored)} :
                   /\ weights' = t.weights
                   /\ totalGames' = t.totalGames
                   /\ saves' = Append(saves, [by |-> 0, then |-> "READY",
                                              data |-> t.stored, state |-> "open"])
            /\ UNCHANGED <<seed, stored, posted>>
    /\ last' = [op |-> "RESET_BRAIN"]
    /\ UNCHANGED <<pc, games, isTraining, running, loops>>

\* 'TRAIN_END_GAME': "await ai.train(...)", DATA_UPDATED once the save has
\* completed
HandleTrainEndGame ==
    /\ Handling("TRAIN_END_GAME")
    /\ prog # "fast"
    /\ \E t \in {train(weights, totalGames, stored, EndGameBoard, 1, 1)} :
           /\ weights' = t.weights
           /\ totalGames' = t.totalGames
           /\ saves' = Append(saves, [by |-> 0, then |-> "DATA_UPDATED",
                                      data |-> t.stored, state |-> "open"])
    /\ last' = [op |-> "TRAIN_END_GAME"]
    /\ UNCHANGED <<pc, games, isTraining, running, loops, seed, stored, posted>>

\* the first transaction or timer of the queue that has not ended (0: none)
firstOpen == 
    IF \E i \in DOMAIN saves : saves[i].state = "open"
    THEN CHOOSE i \in DOMAIN saves :
             /\ saves[i].state = "open"
             /\ \A j \in 1..(i - 1) : saves[j].state # "open"
    ELSE 0

\* the queue without its entry i
without(q, i) == SubSeq(q, 1, i - 1) \o SubSeq(q, i + 1, Len(q))

\* the condition of the loop's "while" holds
goesOn ==
    /\ isTraining
    /\ prog = "fast" => games < loops[running].batchSize

\* the loop is at its "while" and the condition holds: another game follows
LoopPoll ==
    /\ running # 0 /\ pc = "idle"
    /\ goesOn
    /\ pc' = "start"
    /\ loops' = [loops EXCEPT ![running].late = @ \/ loops[running].stopSeen]
    /\ last' = [op |-> "poll"]
    /\ UNCHANGED <<prog, games, isTraining, inbox, running, saves, posted, sent>>
    /\ UNCHANGED gameVars /\ UNCHANGED aiVars

\* calls of train the loops have made
RECURSIVE trainedBy(_)
trainedBy(ls) == IF ls = <<>> THEN 0 ELSE ls[1].trained + trainedBy(Tail(ls))

\* the games whose training is followed: MaxGames of part_000's loops
\* together, MaxGames of each loop of the other two
Capped ==
    IF prog = "fast" THEN trainedBy(loops) >= MaxGames
    ELSE loops[running].trained >= MaxGames

\* the body of the "while": the board of a new game is set up
WorkerStart ==
    /\ running # 0 /\ pc = "start"
    /\ ~Capped
    /\ IF prog = "fast"
       THEN /\ board' = resetBoard /\ turn' = 1 /\ passCount' = 0 /\ history' = <<>>
            /\ UNCHANGED <<tboard, cur, tpass>>
       ELSE /\ tboard' = startBoard /\ cur' = 1 /\ tpass' = 0
            /\ UNCHANGED <<board, turn, passCount, history>>
    /\ pc' = "play" /\ plies' = 0 /\ placed' = 0
    /\ loops' = [loops EXCEPT ![running].table = [weights |-> weights, seed |-> seed],
                              ![running].calls = 0,
                              ![running].played = TRUE]
    /\ last' = [op |-> "start"]
    /\ UNCHANGED <<prog, winner, games, isTraining, inbox, running, saves, posted, sent>>
    /\ UNCHANGED aiVars

\* the "while" is left: the loop posts its last message and returns
LoopExit ==
    /\ running # 0 /\ pc = "idle"
    /\ ~goesOn
    /\ posted' = posted \cup {[type |-> IF prog = "fast" THEN "TRAINING_COMPLETE"
                                         ELSE "TRAIN_STOPPED", by |-> running]}
    /\ isTraining' = IF prog = "fast" THEN FALSE ELSE isTraining
    /\ loops' = [loops EXCEPT ![running].at = "done", ![running].games = games]
    /\ running' = 0 /\ pc' = "serve"
    /\ last' = [op |-> "exit"]
    /\ UNCHANGED <<prog, games, inbox, saves, sent>>
    /\ UNCHANGED gameVars /\ UNCHANGED aiVars

\* gamesInSession after "gamesInSession++", told apart up to the TRAIN_UPDATE
\* it decides
counted(n) == (n + 1) % UpdateEvery

\* TRAIN_UPDATE is posted when the count allows
updatePosted(n, l) ==
    IF n = 0 THEN posted \cup {[type |-> "TRAIN_UPDATE", by |-> l]} ELSE posted

\* runTrainingLoop after a drawn game: no train, no await; "gamesInSession++"
\* and the loop goes round
WorkerDraw ==
    /\ prog \in {"v5", "v6"} /\ running # 0 /\ pc = "over"
    /\ winner = 0
    /\ games' = counted(games)
    /\ posted' = updatePosted(games', running)
    /\ pc' = "idle"
    /\ last' = [op |-> "draw"]
    /\ UNCHANGED <<prog, isTraining, inbox, running, loops, saves, sent>>
    /\ UNCHANGED gameVars /\ UNCHANGED aiVars

\* runTrainingLoop after a decided game: "await ai.train(board, winner,
\* winner)" changes the table, opens the transaction and waits for it
WorkerTrain ==
    /\ prog \in {"v5", "v6"} /\ running # 0 /\ pc = "over"
    /\ winner # 0
    /\ \E t \in {train(weights, totalGames, stored, tboard, winner, winner)} :
           /\ weights' = t.weights
           /\ totalGames' = t.totalGames
           /\ saves' = Append(saves, [by |-> running, then |-> "loop",
                                      data |-> t.stored, state |-> "open"])
    /\ loops' = [loops EXCEPT ![running].at = "save",
                              ![running].games = games,
                              ![running].trained = @ + 1,
                              ![running].calls = @ + 1]
    /\ running' = 0 /\ pc' = "serve"
    /\ last' = [op |-> "train"]
    /\ UNCHANGED <<prog, games, isTraining, inbox, posted, sent, seed, stored>>
    /\ UNCHANGED gameVars

\* trainLoop after a game: "ai.train(history, result)", "gamesCount++"; every
\* ProgressEvery games PROGRESS is posted and the loop waits for a timer
WorkerTrainN ==
    /\ prog = "fast" /\ running # 0 /\ pc = "over"
    /\ \E t \in {trainN(weights, history, winner)} :
           weights' = t.w
    /\ games' = games + 1
    /\ IF games' % ProgressEvery = 0
       THEN /\ posted' = posted \cup {[type |-> "PROGRESS", by |-> running]}
            /\ saves' = Append(saves, [by |-> running, then |-> "loop",
                                       data |-> NoData, state |-> "open"])
            /\ loops' = [loops EXCEPT ![running].at = "timer",
                                      ![running].games = games',
                                      ![running].trained = @ + 1,
                                      ![running].calls = @ + 1]
            /\ running' = 0 /\ pc' = "serve"
       ELSE /\ loops' = [loops EXCEPT ![running].trained = @ + 1,
                                      ![running].calls = @ + 1]
            /\ pc' = "idle"
            /\ UNCHANGED <<posted, saves, running>>
    /\ last' = [op |-> "train"]
    /\ UNCHANGED <<prog, isTraining, inbox, sent, seed, totalGames, stored>>
    /\ UNCHANGED gameVars

\* the oldest timer fires: the loop that set it goes on at its "while"
TimerFires ==
    /\ prog = "fast" /\ running = 0
    /\ firstOpen # 0
    /\ running' = saves[firstOpen].by
    /\ saves' = without(saves, firstOpen)
    /\ loops' = [loops EXCEPT ![running'].at = "run"]
    /\ games' = loops[running'].games
    /\ pc' = "idle"
    /\ last' = [op |-> "timer"]
    /\ UNCHANGED <<prog, isTraining, inbox, posted, sent>>
    /\ UNCHANGED gameVars /\ UNCHANGED aiVars

\* the oldest transaction completes for a loop: the table is stored, train
\* returns, "gamesInSession++" and the loop goes round
LoopSaved ==
    /\ prog \in {"v5", "v6"} /\ running = 0
    /\ firstOpen # 0 /\ saves[firstOpen].by # 0
    /\ stored' = saves[firstOpen].data
    /\ running' = saves[firstOpen].by
    /\ saves' = without(saves, firstOpen)
    /\ loops' = [loops EXCEPT ![running'].at = "run"]
    /\ games' = counted(loops[running'].games)
    /\ posted' = updatePosted(games', running')
    /\ pc' = "idle"
    /\ last' = [op |-> "saved"]
    /\ UNCHANGED <<prog, isTraining, inbox, sent, weights, seed, totalGames>>
    /\ UNCHANGED gameVars

\* the oldest transaction completes for a call of onmessage, which posts its
\* message
HandlerSaved ==
    /\ prog \in {"v5", "v6"} /\ running = 0
    /\ firstOpen # 0 /\ saves[firstOpen].by = 0
    /\ stored' = saves[firstOpen].data
    /\ posted' = posted \cup {[type |-> saves[firstOpen].then, by |-> 0]}
    /\ saves' = without(saves, firstOpen)
    /\ last' = [op |-> "saved"]
    /\ UNCHANGED <<prog, pc, games, isTraining, inbox, running, loops, sent,
                   weights, seed, totalGames>>
    /\ UNCHANGED gameVars

\* the oldest transaction ends without completing (an abort, a storage
\* error): "tx.oncomplete" is never called, the promise of saveData never
\* settles
SaveFails ==
    /\ prog \in {"v5", "v6"} /\ running = 0
    /\ firstOpen # 0
    /\ Len(SelectSeq(saves, LAMBDA s : s.state = "failed")) < MaxFailures
    /\ saves' = [saves EXCEPT ![firstOpen].state = "failed"]
    /\ last' = [op |-> "failed"]
    /\ UNCHANGED <<prog, pc, games, isTraining, inbox, running, loops, posted, sent>>
    /\ UNCHANGED gameVars /\ UNCHANGED aiVars

\* what the worker of ai-worker.js / part_001 does for a caller that trains
\* and asks for moves: a task of its event loop, or the next step of the
\* function that is executing
SessionStep ==
    \/ LoopExploit \/ LoopPass \/ LoopBreak \/ WorkerDraw \/ WorkerTrain
    \/ LoopPoll \/ WorkerStart \/ LoopExit
    \/ HandleStart \/ HandleStop \/ HandleGetMove
    \/ LoopSaved \/ SaveFails

\* the same for the three workers and every message
WorkerStep ==
    \/ SessionStep
    \/ HandleReset \/ HandleTrainEndGame \/ HandlerSaved
    \/ PlyPass \/ PlyBest \/ GameEnd \/ WorkerTrainN \/ TimerFires

WorkerNext == Post \/ WorkerStep

WorkerSpec == WorkerInit /\ [][WorkerNext]_vars

\* the worker of ai-worker.js / part_001 alone
SessionInit == WorkerInit /\ prog \in {"v5", "v6"} /\ saves = <<>>

\* the messages of a caller that trains and asks for moves
Ask == \E type \in {"START_TRAINING", "STOP_TRAINING", "GET_MOVE"} : PostOf(type)

SessionNext == Ask \/ SessionStep

\* executing code runs on, and the event loop runs a task whenever one is
\* ready and nothing is executing; callers post when they please
SessionSpec == SessionInit /\ [][SessionNext]_vars /\ WF_vars(SessionStep)

\* ----------------------------------------------- the rules, stated on cells
\* A board seen as colours on the cells <<r, c>>: 0 empty, 1 black, 2 white
\* (3: a wall).

RC == (0..7) \X (0..7)

Colour(v) == IF v = 1 THEN 1 ELSE IF v = -1 THEN 2 ELSE IF v = 0 THEN 0 ELSE 3
SideOf(t) == IF t = 1 THEN 1 ELSE 2

ViewF(b) == [m \in RC |-> Colour(b[(m[1] + 1) * 10 + (m[2] + 1)])]
ViewN(b) == [m \in RC |-> Colour(b[m[1] * 8 + m[2]])]
ViewW(b) == [m \in RC |-> b[m[1]][m[2]]]

Step(m, k, n) == <<m[1] + n * dirs[k][1], m[2] + n * dirs[k][2]>>

\* the run of opponent discs next to m in direction k that a disc of p ends
Run(v, m, k, p) ==
    IF Step(m, k, 1) \in RC /\ v[Step(m, k, 1)] = 3 - p
    THEN UNION {{Step(m, k, j) : j \in 1..n} :
                n \in {n \in 1..6 :
                          /\ \A j \in 1..n : Step(m, k, j) \in RC /\ v[Step(m, k, j)] = 3 - p
                          /\ Step(m, k, n + 1) \in RC
                          /\ v[Step(m, k, n + 1)] = p}}
    ELSE {}

Bracketed(v, m, p) == UNION {Run(v, m, k, p) : k \in 1..8}

LegalCells(v, p) == {m \in RC : v[m] = 0 /\ Bracketed(v, m, p) # {}}

After(v, m, p) ==
    LET turned == Bracketed(v, m, p) \cup {m}
    IN  [x \in RC |-> IF x \in turned THEN p ELSE v[x]]

Discs(v, p) == Cardinality({m \in RC : v[m] = p})

SeqSet(q) == {q[n] : n \in 1..Len(q)}
NoRepeat(q) == Cardinality(SeqSet(q)) = Len(q)

RC10(idx) == <<(idx \div 10) - 1, (idx % 10) - 1>>
RC8(idx) == <<idx \div 8, idx % 8>>

FastPlay == prog = "fast" /\ pc = "play"
LoopPlay == prog \in {"v5", "v6"} /\ pc = "play"
FastMoved == prog = "fast" /\ last.op = "makeMove" /\ last.move # PASS
FastPassed == prog = "fast" /\ last.op = "makeMove" /\ last.move = PASS
LoopMoved == prog \in {"v5", "v6"} /\ last.op = "execute"

\* an opponent run next to empty cell m that ends at the edge or at an empty cell
OpenRun(v, m, p) ==
    \E k \in 1..8 :
        /\ Step(m, k, 1) \in RC /\ v[Step(m, k, 1)] = 3 - p
        /\ Run(v, m, k, p) = {}

\* C1: legal-move enumeration returns exactly the empty cells from which some
\* direction holds a run of opponent discs ended by a disc of the side asked
\* for, each once: in FastOthello, in the N-tuple engine and in the
\* positional-weight engine.
C1_LegalMoves ==
    /\ FastPlay =>
          \A t \in {1, -1} :
              LET moves10 == getLegalMoves10(board, t)
                  moves64 == getLegalMoves(getFlatBoard64(board), t)
                  legal == LegalCells(ViewF(board), SideOf(t))
              IN  /\ {RC10(moves10[n]) : n \in 1..Len(moves10)} = legal
                  /\ NoRepeat(moves10)
                  /\ {RC8(moves64[n]) : n \in 1..Len(moves64)} = legal
                  /\ NoRepeat(moves64)
    /\ LoopPlay =>
          \A p \in {1, 2} :
              LET moves == getValidMoves(tboard, p)
              IN  /\ {<<moves[n].r, moves[n].c>> : n \in 1..Len(moves)} =
                         LegalCells(ViewW(tboard), p)
                  /\ NoRepeat(moves)

\* C1 witness: the side to move has legal moves, and an empty cell next to an
\* opponent run that nothing ends is not among them.
C1_Witness ==
    /\ FastPlay
    /\ Len(getLegalMoves10(board, turn)) > 0
    /\ \E m \in RC :
          /\ ViewF(board)[m] = 0
          /\ OpenRun(ViewF(board), m, SideOf(turn))
          /\ \A n \in 1..Len(getLegalMoves10(board, turn)) :
                 RC10(getLegalMoves10(board, turn)[n]) # m

Total(v) == Discs(v, 1) + Discs(v, 2)
Turned(v0, v1, p) == {x \in RC : v0[x] = 3 - p /\ v1[x] = p}
Border == {i \in 0..99 : ~(i \div 10 \in 1..8 /\ i % 10 \in 1..8)}

\* C2: a non-PASS move at cell c for side p turns c and every opponent disc of
\* a run next to c that a disc of p ends into p, and nothing else; FastOthello
\* then has the other side to move and a pass counter of 0.
C2_ApplyMove ==
    /\ FastMoved =>
          LET expected == After(ViewF(last.before), RC10(last.move), SideOf(last.mover))
          IN  /\ ViewF(board) = expected
              /\ \A i \in Border : board[i] = last.before[i]
              /\ turn = -last.mover
              /\ passCount = 0
              /\ ViewN(simulateMove(getFlatBoard64(last.before), idx10to8(last.move),
                                    last.mover)) = expected
    /\ LoopMoved =>
          ViewW(tboard) =
              After(ViewW(last.before), <<last.move.r, last.move.c>>, last.mover)

\* C2 witness: a move that turned at least two discs while an opponent run next
\* to the cell, ended by nothing, stayed as it was.
C2_Witness ==
    /\ FastMoved
    /\ Cardinality(Bracketed(ViewF(last.before), RC10(last.move), SideOf(last.mover))) >= 2
    /\ OpenRun(ViewF(last.before), RC10(last.move), SideOf(last.mover))

\* C3: PASS flips the side to move, adds 1 to the pass counter and leaves all
\* 100 cells as they were.
C3_Pass ==
    FastPassed =>
        /\ board = last.before
        /\ turn = -last.mover
        /\ passCount = last.passBefore + 1

\* C3 witness: a PASS has been applied on a board that holds empty cells.
C3_Witness ==
    /\ FastPassed
    /\ \E m \in RC : ViewF(board)[m] = 0

\* C4: in every state of a game, each cell the enumeration returns turns at
\* least one opponent disc when the side to move plays it.
C4_LegalMovesFlip ==
    /\ FastPlay =>
          LET moves10 == getLegalMoves10(board, turn)
          IN  \A n \in 1..Len(moves10) :
                  Turned(ViewF(board),
                         ViewF(makeMove(board, turn, passCount, moves10[n]).board),
                         SideOf(turn)) # {}
    /\ LoopPlay =>
          LET moves == getValidMoves(tboard, cur)
          IN  \A n \in 1..Len(moves) :
                  Turned(ViewW(tboard),
                         ViewW(execute(tboard, moves[n].r, moves[n].c, cur)), cur) # {}

\* C4 witness: after passes and moves, a position with several legal moves.
C4_Witness ==
    /\ LoopPlay
    /\ placed >= 20
    /\ Len(getValidMoves(tboard, cur)) >= 3

\* C5: no move empties a cell, and a non-PASS move raises the number of discs
\* on the board by at least 1.
C5_DiscCount ==
    /\ FastMoved =>
          /\ \A x \in RC : ViewF(last.before)[x] # 0 => ViewF(board)[x] # 0
          /\ Total(ViewF(board)) >= Total(ViewF(last.before)) + 1
    /\ FastPassed =>
          \A x \in RC : ViewF(last.before)[x] # 0 => ViewF(board)[x] # 0
    /\ LoopMoved =>
          /\ \A x \in RC : ViewW(last.before)[x] # 0 => ViewW(tboard)[x] # 0
          /\ Total(ViewW(tboard)) >= Total(ViewW(last.before)) + 1
    /\ (prog \in {"v5", "v6"} /\ last.op = "pass") =>
          \A x \in RC : ViewW(last.before)[x] # 0 => ViewW(tboard)[x] # 0

\* C5 witness: a move that turned discs in the second half of a game.
C5_Witness ==
    /\ LoopMoved
    /\ Total(ViewW(last.before)) >= 34
    /\ Cardinality(Turned(ViewW(last.before), ViewW(tboard), last.mover)) >= 3

\* C6: under the index map (y-1)*8+(x-1) the bordered board and the flat board
\* agree: the same legal moves in the same order, the same board after each of
\* them, and border cells that stay walls.
C6_Bordered ==
    FastPlay =>
        LET moves10 == getLegalMoves10(board, turn)
            flat == getFlatBoard64(board)
            moves64 == getLegalMoves(flat, turn)
        IN  /\ Len(moves10) = Len(moves64)
            /\ \A n \in 1..Len(moves10) :
                   /\ idx10to8(moves10[n]) = moves64[n]
                   /\ LET after == makeMove(board, turn, passCount, moves10[n]).board
                      IN  /\ getFlatBoard64(after) = simulateMove(flat, moves64[n], turn)
                          /\ \A i \in Border : after[i] = WALL
            /\ \A i \in Border : board[i] = WALL
            /\ WALL \notin {1, -1}

\* C6 witness: a legal move on the rim of the board, next to the border.
C6_Witness ==
    /\ FastPlay
    /\ \E n \in 1..Len(getLegalMoves10(board, turn)) :
           LET m == RC10(getLegalMoves10(board, turn)[n])
           IN  m[1] \in {0, 7} \/ m[2] \in {0, 7}
    /\ placed >= 10

Terminal ==
    IF prog = "fast"
    THEN passCount >= 2 \/ \A m \in RC : ViewF(board)[m] # 0
    ELSE tpass >= 2

C7_Bounds ==
    /\ placed <= 60
    /\ last.op \in {"makeMove", "execute", "pass"} => last.passBefore <= 1
    /\ pc = "over" => Terminal

\* C7: every self-play game ends, in a state whose pass counter is at least 2
\* or whose board is full; it holds at most 60 non-PASS plies, and no ply is
\* taken after two PASSes in a row.
C7_Termination == [](C7_Bounds) /\ <>(pc = "over")

\* C7 witness: a game over by two PASSes in a row with empty cells left.
C7_Witness ==
    /\ pc = "over"
    /\ prog \in {"v5", "v6"}
    /\ tpass >= 2
    /\ \E m \in RC : ViewW(tboard)[m] = 0

OpeningCounts(v0, v1, p) ==
    /\ Discs(v1, p) = 4
    /\ Discs(v1, 3 - p) = 1
    /\ Cardinality(Turned(v0, v1, p)) = 1

\* C8: from the opening position the side to move has exactly 4 legal moves,
\* and each of them turns exactly one disc: 4 discs of the mover, 1 of the
\* other side.
C8_Opening ==
    /\ (prog = "fast" /\ last.op = "reset") =>
          LET moves10 == getLegalMoves10(board, turn)
          IN  /\ Len(moves10) = 4
              /\ \A n \in 1..4 :
                     OpeningCounts(ViewF(board),
                                   ViewF(makeMove(board, turn, passCount, moves10[n]).board),
                                   SideOf(turn))
    /\ (prog \in {"v5", "v6"} /\ last.op = "start") =>
          LET moves == getValidMoves(tboard, cur)
          IN  /\ Len(moves) = 4
              /\ \A n \in 1..4 :
                     OpeningCounts(ViewW(tboard),
                                   ViewW(execute(tboard, moves[n].r, moves[n].c, cur)), cur)
    /\ (FastMoved /\ placed = 1) =>
          OpeningCounts(ViewF(last.before), ViewF(board), SideOf(last.mover))
    /\ (LoopMoved /\ placed = 1) =>
          OpeningCounts(ViewW(last.before), ViewW(tboard), last.mover)

\* C8 witness: the first move of a game has been applied to the opening position.
C8_Witness ==
    /\ FastMoved
    /\ placed = 1
    /\ last.before = resetBoard

\* a call that applied a non-PASS move outside the legal-move set
IllegalFast ==
    /\ FastMoved
    /\ RC10(last.move) \notin LegalCells(ViewF(last.before), SideOf(last.mover))

IllegalLoop ==
    /\ LoopMoved
    /\ <<last.move.r, last.move.c>> \notin LegalCells(ViewW(last.before), last.mover)

\* C9 as stated: a move outside the legal-move set makes makeMove / execute
\* signal an error, and the board stays as it was.
C9_FailFast ==
    /\ IllegalFast => last.threw /\ board = last.before
    /\ IllegalLoop => last.threw /\ tboard = last.before

\* C9: a move outside the legal-move set is applied like any other: no error
\* is signalled, the mover's disc is put on the cell (over whatever was there),
\* exactly the opponent runs next to the cell that a disc of the mover ends are
\* turned, and FastOthello has the other side to move and a pass counter of 0.
C9_Unchecked ==
    /\ IllegalFast =>
          LET expected == After(ViewF(last.before), RC10(last.move), SideOf(last.mover))
          IN  /\ ~last.threw
              /\ ViewF(board) = expected
              /\ turn = -last.mover
              /\ passCount = 0
              /\ ViewN(simulateMove(getFlatBoard64(last.before), idx10to8(last.move),
                                    last.mover)) = expected
    /\ IllegalLoop =>
          /\ ~last.threw
          /\ ViewW(tboard) =
                 After(ViewW(last.before), <<last.move.r, last.move.c>>, last.mover)

\* C9 witness: a disc put on a cell the other side held.
C9_Witness ==
    /\ IllegalFast
    /\ ViewF(last.before)[RC10(last.move)] = 3 - SideOf(last.mover)
    /\ ViewF(board)[RC10(last.move)] = SideOf(last.mover)

AskedFast == prog = "fast" /\ last.op = "getBestMove"
AskedLoop == prog \in {"v5", "v6"} /\ last.op = "getBestMove"

\* C10: getBestMove returns PASS (-1 in the N-tuple engine, null in the
\* positional-weight engine) exactly when the side asked for has no legal move
\* on the board given, and a legal move of that side otherwise.
C10_BestMove ==
    /\ AskedFast =>
          LET legal == LegalCells(ViewN(last.board), SideOf(last.player))
          IN  /\ last.move = -1 <=> legal = {}
              /\ last.move # -1 => last.move \in 0..63 /\ RC8(last.move) \in legal
    /\ AskedLoop =>
          LET legal == LegalCells(ViewW(last.board), last.player)
          IN  /\ last.move = null <=> legal = {}
              /\ last.move # null => <<last.move.r, last.move.c>> \in legal

\* C10 witness: with several legal moves, the search returned one that is not
\* the first in weight order.
C10_Witness ==
    /\ AskedLoop
    /\ Len(getValidMoves(last.board, last.player)) >= 2
    /\ last.move # null
    /\ last.move # sortMoves(getValidMoves(last.board, last.player), weights)[1]

\* no legal move on a board that still holds empty cells: PASS is returned
C10_PassSeen ==
    /\ AskedLoop
    /\ countEmpty(last.board) > 0
    /\ last.move = null

\* ------------------------------------------------------ the search, unpruned

SetMax(S) == CHOOSE x \in S : \A y \in S : y <= x
SetMin(S) == CHOOSE x \in S : \A y \in S : x <= y

\* minimax of the same depth with no alpha and beta: every move of every node
\* is searched
RECURSIVE fullMinimax(_, _, _, _)
fullMinimax(b, depth, isMax, player) ==
    IF depth = 0 THEN evaluate(b, player)
    ELSE LET curP == IF isMax THEN player ELSE 3 - player
             moves == getValidMoves(b, curP)
             vals == {fullMinimax(execute(b, moves[k].r, moves[k].c, curP),
                                  depth - 1, ~isMax, player) : k \in 1..Len(moves)}
         IN  IF Len(moves) = 0
             THEN IF Len(getValidMoves(b, 3 - curP)) = 0
                  THEN evaluateFinal(b, player)
                  ELSE fullMinimax(b, depth - 1, ~isMax, player)
             ELSE IF isMax THEN SetMax(vals) ELSE SetMin(vals)

\* the full value of each move of player on b, in descending-weight order
fullValues(b, player) ==
    LET sorted == sortMoves(getValidMoves(b, player), weights)
    IN  [k \in 1..Len(sorted) |->
            fullMinimax(execute(b, sorted[k].r, sorted[k].c, player),
                        maxDepthOf(countEmpty(b)) - 1, FALSE, player)]

\* the first move in descending-weight order whose full value is maximal
fullBest(b, player) ==
    LET sorted == sortMoves(getValidMoves(b, player), weights)
        vals == fullValues(b, player)
        top == SetMax({vals[k] : k \in 1..Len(sorted)})
    IN  sorted[CHOOSE k \in 1..Len(sorted) :
                   vals[k] = top /\ \A j \in 1..(k - 1) : vals[j] # top]

\* C11: alpha-beta pruning never changes the decision: getBestMove returns the
\* first move in descending-weight order among those whose unpruned minimax
\* value of the same depth is maximal.
C11_AlphaBeta ==
    (AskedLoop /\ last.move # null) => last.move = fullBest(last.board, last.player)

\* C11 witness: a move other than the one returned was cut short: searched
\* with the best value as alpha it yields another value than its full one,
\* and a later move ties the best value.
C11_Witness ==
    /\ AskedLoop
    /\ last.move # null
    /\ LET sorted == sortMoves(getValidMoves(last.board, last.player), weights)
           vals == fullValues(last.board, last.player)
           top == SetMax({vals[k] : k \in 1..Len(sorted)})
       IN  \E k \in 1..Len(sorted) :
               /\ sorted[k] # last.move
               /\ minimax(execute(last.board, sorted[k].r, sorted[k].c, last.player),
                          maxDepthOf(countEmpty(last.board)) - 1, top, Infinity,
                          FALSE, last.player) # vals[k]

\* the terminal evaluation of the position the game reaches from b, with side
\* toMove to move, when both sides play the moves best for them in that
\* evaluation and a side without a move passes
RECURSIVE exactValue(_, _, _)
exactValue(b, toMove, player) ==
    LET moves == getValidMoves(b, toMove)
        vals == {exactValue(execute(b, moves[k].r, moves[k].c, toMove),
                            3 - toMove, player) : k \in 1..Len(moves)}
    IN  IF Len(moves) = 0
        THEN IF Len(getValidMoves(b, 3 - toMove)) = 0
             THEN evaluateFinal(b, player)
             ELSE exactValue(b, 3 - toMove, player)
        ELSE IF toMove = player THEN SetMax(vals) ELSE SetMin(vals)

\* the exact value of the move m of player on b
exactOf(b, m, player) == exactValue(execute(b, m.r, m.c, player), 3 - player, player)

AskedLate == AskedLoop /\ last.move # null /\ countEmpty(last.board) <= 14

\* C12 as stated: with at most 14 empty cells the search is exact: no leaf it
\* visits is valued by the heuristic evaluate, and the move returned has the
\* best exact value.
C12_Exact ==
    AskedLate =>
        /\ getBestMoveLeaves(last.board, last.player).bestMove = last.move
        /\ getBestMoveLeaves(last.board, last.player).heur = 0
        /\ LET moves == getValidMoves(last.board, last.player)
           IN  \A k \in 1..Len(moves) :
                   exactOf(last.board, moves[k], last.player)
                       <= exactOf(last.board, last.move, last.player)

\* the leaf-counting search returns what the search returns
LeavesAgree ==
    (AskedLoop /\ last.move # null) =>
        getBestMoveLeaves(last.board, last.player).bestMove = last.move

\* a board on which the move returned loses discs against the best move
C12_WorseMove ==
    /\ AskedLate
    /\ LET moves == getValidMoves(last.board, last.player)
       IN  \E k \in 1..Len(moves) :
               exactOf(last.board, moves[k], last.player)
                   > exactOf(last.board, last.move, last.player)

\* a board from which every line fills the board without a pass, and the
\* leaves are valued by evaluate all the same
C12_FullBoardLeaf ==
    /\ AskedLate
    /\ countEmpty(last.board) = 1
    /\ getBestMoveLeaves(last.board, last.player).heur = 1

\* ------------------------------------------------------ a pass in the search

\* the (alpha, beta) pairs and depths minimax is called with below
Windows == {<<-Infinity, Infinity>>, <<-Infinity, 0>>, <<0, Infinity>>, <<-300, 300>>}
PassDepths == 1..3

\* the side to move of a minimax call
MoverOf(isMax, player) == IF isMax THEN player ELSE 3 - player

Stuck(b, p) == LegalCells(ViewW(b), p) = {}

\* own discs minus the opponent's, times the constant of the revision
FinalOf(b, player) ==
    (Discs(ViewW(b), player) - Discs(ViewW(b), 3 - player))
        * Halves(IF prog = "v6" THEN 10000 ELSE 1000)

\* C13: minimax with depth > 0 on a board where the side to move has no move
\* returns the final disc difference of the root player times the constant
\* when the other side has no move either, and otherwise what minimax returns
\* on the same board with depth - 1, the same alpha and beta and the other
\* side to move
C13_Pass ==
    AskedLoop =>
        \A player \in {1, 2}, isMax \in BOOLEAN, depth \in PassDepths, w \in Windows :
            Stuck(last.board, MoverOf(isMax, player)) =>
                minimax(last.board, depth, w[1], w[2], isMax, player)
                    = IF Stuck(last.board, 3 - MoverOf(isMax, player))
                      THEN FinalOf(last.board, player)
                      ELSE minimax(last.board, depth - 1, w[1], w[2], ~isMax, player)

\* a board was searched on which one side has to pass and the other can move,
\* and the search after the pass does not stop at once
C13_Witness ==
    /\ AskedLoop
    /\ \E p \in {1, 2} :
           /\ Stuck(last.board, p) /\ ~Stuck(last.board, 3 - p)
           /\ minimax(last.board, 2, -Infinity, Infinity, TRUE, p)
                  # evaluate(last.board, p)

\* a board was searched on which neither side can move while cells are empty
C13_BothStuck ==
    /\ AskedLoop
    /\ countEmpty(last.board) > 0
    /\ Stuck(last.board, 1) /\ Stuck(last.board, 2)

\* --------------------------------------------------------------- training

TrainedNow == prog \in {"v5", "v6"} /\ last.op = "train"

C17_SelfPlay ==
    (prog \in {"v5", "v6"} /\ games = 1 /\ winner = 0) =>
        /\ weights = copyWeights(IF prog = "v5" THEN defaultWeightsV5 ELSE defaultWeightsV6)
        /\ totalGames = 0
        /\ stored = NoData

\* the second game of a session is under way after a drawn first game
C17_NextGame ==
    /\ prog \in {"v5", "v6"} /\ games = 1 /\ winner = 0
    /\ pc = "play" /\ placed > 0

\* every weight of the table lies within -limit..limit (limit in whole units)
Within(w, limit) ==
    \A r \in 0..7, c \in 0..7 : -Halves(limit) <= w[r][c] /\ w[r][c] <= Halves(limit)

\* C18: in ai-worker.js every weight stays within [-500, 500] whatever train
\* calls are made on a table grown from the defaults, the three mirror cells
\* an update writes included
C18_Clamp == prog = "v5" => Within(weights, 500)

\* train has just clamped a cell at 500 and left a mirror cell of it above 500
C18_Overshoot ==
    /\ prog = "v5" /\ TrainedNow
    /\ Within(last.before.weights, 500)
    /\ \E r \in 0..7, c \in 0..7 :
           /\ last.board[r][c] = last.aiPlayer
           /\ weights[r][c] = Halves(500)
           /\ weights[r][7 - c] > Halves(500)

\* the four cells of each mirror class hold one value
Mirrored(w) ==
    \A r \in 0..7, c \in 0..7 :
        /\ w[r][7 - c] = w[r][c]
        /\ w[7 - r][c] = w[r][c]
        /\ w[7 - r][7 - c] = w[r][c]

\* C19: in part_001 the four mirror cells of every cell hold the same weight
\* and every weight lies within [-200, 200], whatever train calls were made
C19_Mirror == prog = "v6" => (Mirrored(weights) /\ Within(weights, 200))

\* train has just run for a side that holds a cell without holding all its
\* mirror cells, and a weight it raised was cut off at 200
C19_Witness ==
    /\ prog = "v6" /\ TrainedNow /\ last.winner # 0
    /\ weights # last.before.weights
    /\ \E r \in 0..7, c \in 0..7 :
           /\ last.board[r][c] = last.aiPlayer
           /\ last.board[r][7 - c] # last.aiPlayer
    /\ \E r \in 0..7, c \in 0..7 :
           /\ last.board[r][c] = last.aiPlayer
           /\ last.before.weights[r][c] + 4 * updateOf(last.winner, last.aiPlayer) > Halves(200)
           /\ weights[r][c] = Halves(200)

\* ------------------------------------------- final values and heuristic values

\* a board with one empty cell, the corner (0, 0), that neither side can
\* play: 32 black discs, 31 white
narrowBoard ==
    [r \in 0..7 |-> [c \in 0..7 |->
        IF r = 0 /\ c = 0 THEN 0
        ELSE IF r = 0 \/ r = c THEN 1
        ELSE IF c = 0 THEN 2
        ELSE IF c > r /\ ~(r = 1 /\ c \in {2, 3, 4}) THEN 1
        ELSE 2]]

\* b with the colours exchanged
swapped(b) == [r \in 0..7 |-> [c \in 0..7 |-> IF b[r][c] = 0 THEN 0 ELSE 3 - b[r][c]]]

\* finished positions: neither side has a move
FinishedBoards ==
    {F \in {narrowBoard, swapped(narrowBoard), drawnBoard, lateBoard(1, {}),
            lateBoard(2, {}), wipedBoard(2, {<<3, 4>>, <<7, 7>>})} :
        Stuck(F, 1) /\ Stuck(F, 2)}

DiffOf(F, p) == Discs(ViewW(F), p) - Discs(ViewW(F), 3 - p)

\* C14 as stated: with the table the engine holds, evaluateFinal of every
\* finished position won by a side is above evaluate of the board searched,
\* taken for that side, and that of every lost finished position is below it
C14_Dominates ==
    AskedLoop =>
        \A F \in FinishedBoards, p \in {1, 2} :
            /\ DiffOf(F, p) >= 1 => evaluateFinal(F, p) > evaluate(last.board, p)
            /\ DiffOf(F, p) <= -1 => evaluateFinal(F, p) < evaluate(last.board, p)

\* a position won by one disc is valued below the board searched
C14_Below ==
    /\ AskedLoop
    /\ Within(weights, IF prog = "v6" THEN 200 ELSE 500)
    /\ narrowBoard \in FinishedBoards /\ DiffOf(narrowBoard, 1) = 1
    /\ evaluateFinal(narrowBoard, 1) < evaluate(last.board, 1)

\* with the default table of part_001 the final values do lie outside the
\* heuristic values of the boards searched
C14_DefaultsV6 ==
    (AskedLoop /\ prog = "v6" /\ totalGames = 0) =>
        \A F \in FinishedBoards, p \in {1, 2} :
            /\ DiffOf(F, p) >= 1 => evaluateFinal(F, p) > evaluate(last.board, p)
            /\ DiffOf(F, p) <= -1 => evaluateFinal(F, p) < evaluate(last.board, p)

\* ------------------------------------------------------ getBestMove, twice

Asked == last.op = "getBestMove"

C15_WitnessN ==
    /\ Asked /\ last.again
    /\ prog = "fast"
    /\ Len(getLegalMoves(last.board, last.player)) > 1

\* ------------------------------------------------------ the two perspectives

\* C16: evaluate of a board for white is minus evaluate of it for black with
\* both positional engines, whatever table is held, and the score the
\* N-tuple engine uses for white is minus the one it uses for black
C16_Antisymmetric ==
    Asked =>
        IF prog = "fast"
        THEN \E raw \in {evaluateN(last.board)} : turnScore(raw, -1) = -turnScore(raw, 1)
        ELSE evaluate(last.board, 1) = -evaluate(last.board, 2)

\* a board was valued on which the sides differ in weights, in corners or
\* discs next to an empty corner, and in mobility, with a trained table
C16_Witness ==
    /\ AskedLoop /\ totalGames > 0
    /\ weightScore(last.board, 1) # 0
    /\ mobilityScore(last.board, 1) # 0
    /\ IF prog = "v6"
       THEN /\ last.board[0][0] = 0 /\ last.board[0][1] = 1 /\ last.board[1][0] = 2
            /\ cornerScoreV6(last.board, 1) # 0
       ELSE cornerScoreV5(last.board, 1) # 0

\* the N-tuple engine valued a board with a score other than 0
C16_WitnessN == AskedFast /\ evaluateN(last.board) # 0

\* ------------------------------------------------------ N-tuple training

TrainedFast == prog = "fast" /\ last.op = "train"

\* C20: train of the N-tuple engine takes one turn per entry of the history,
\* from the last entry to the first; the target of the first turn is the
\* result of the game; the error of a turn is its target minus the value of
\* its entry's board under the table as it was before the turn's update; and
\* that value is the target of the next turn
C20_Backward ==
    TrainedFast =>
        /\ Len(last.trace) = Len(last.history)
        /\ \A k \in 1..Len(last.trace) :
               LET turnK == last.trace[k]
                   entry == last.history[Len(last.history) - k + 1]
               IN  /\ turnK.i = Len(last.history) - k
                   /\ turnK.target = IF k = 1 THEN targetOf(last.result)
                                              ELSE last.trace[k - 1].value
                   /\ turnK.table = IF k = 1 THEN last.before
                                             ELSE updateWeights(last.trace[k - 1].table,
                                                                last.history[Len(last.history) - k + 2].board,
                                                                last.trace[k - 1].error)
                   /\ turnK.value = evaluateT(turnK.table, entry.board)
                   /\ turnK.error = turnK.target - turnK.value
        /\ Len(last.trace) > 0 =>
               weights = updateWeights(last.trace[Len(last.trace)].table,
                                       last.history[1].board,
                                       last.trace[Len(last.trace)].error)

\* a game of more than 50 plies was trained on, and some turn's update moved
\* the value of its own board
C20_Witness ==
    /\ TrainedFast
    /\ Len(last.history) > 50
    /\ last.result # 0
    /\ \E k \in 1..Len(last.trace) :
           evaluateT(IF k = Len(last.trace) THEN weights ELSE last.trace[k + 1].table,
                     last.history[Len(last.history) - k + 1].board)
               # last.trace[k].value

\* the board of the k-th turn of the last train
TurnBoard(k) == last.history[Len(last.history) - k + 1].board

\* the table as the k-th turn of the last train left it
TableAfter(k) == IF k = Len(last.trace) THEN weights ELSE last.trace[k + 1].table

\* C21 as stated: the target of every turn but the first is the value of the
\* board of the turn before it (the following ply) under the table as that
\* turn's update left it
C21_Fresh ==
    TrainedFast =>
        \A k \in 2..Len(last.trace) :
            last.trace[k].target = evaluateT(TableAfter(k - 1), TurnBoard(k - 1))

\* C21: the target of every turn but the first is the value of the board of
\* the following ply under the table as it was before that ply's update, and
\* it differs from the value under the updated table whenever the update
\* moved the table
C21_Stale ==
    TrainedFast =>
        \A k \in 2..Len(last.trace) :
            /\ last.trace[k].target
                   = evaluateT(last.trace[k - 1].table, TurnBoard(k - 1))
            /\ deltaOf(last.trace[k - 1].error) # 0 =>
                   last.trace[k].target
                       # evaluateT(TableAfter(k - 1), TurnBoard(k - 1))

\* a turn with a target handed on by a turn whose update moved the table
C21_Witness ==
    /\ TrainedFast
    /\ \E k \in 2..Len(last.trace) : deltaOf(last.trace[k - 1].error) # 0

\* -------------------------------------------------------------- reset

\* the table the constructor of the positional-weight engine copied
DefaultTable == copyWeights(IF prog = "v5" THEN defaultWeightsV5 ELSE defaultWeightsV6)

\* C27: after reset, whatever train calls and resets came before it, every
\* cell of the weight table holds its default value, totalGames is 0, and
\* that is what the storage was given
C27_Reset ==
    (prog \in {"v5", "v6"} /\ last.op = "reset") =>
        /\ \A r \in 0..7, c \in 0..7 : weights[r][c] = DefaultTable[r][c]
        /\ totalGames = 0
        /\ stored = [weights |-> DefaultTable, totalGames |-> 0]

\* a second reset, of a table that training had moved away from the defaults
\* after the first reset
C27_Witness ==
    /\ prog \in {"v5", "v6"} /\ last.op = "reset"
    /\ last.resets = 2
    /\ last.before.totalGames = 1
    /\ \E r \in 0..7, c \in 0..7 : last.before.weights[r][c] # DefaultTable[r][c]

\* ------------------------------------------------- the N-tuple update

\* the entry evaluate reads on board b in each of the 32 turns of its two
\* loops (tuple t, symmetry s), in the order of the turns
ReadKeys(b) ==
    SubSeq([n \in 1..(8 * Len(rawTuples)) |->
               <<((n - 1) \div 8) + 1,
                 tupleIndex(b, tupleCells[((n - 1) \div 8) + 1][((n - 1) % 8) + 1], 1, 0, 1)>>],
           1, 8 * Len(rawTuples))

\* how many of the reads keys are of the entry x
ReadsOf(keys, x) == Cardinality({n \in DOMAIN keys : keys[n] = x})

\* the entries written in either table
Written(w1, w2) == DOMAIN w1 \cup DOMAIN w2

\* the sum of the sequence q
RECURSIVE SumSeq(_)
SumSeq(q) == IF q = <<>> THEN 0 ELSE Head(q) + SumSeq(Tail(q))

\* the update of the k-th turn of the last train adds its delta to an entry
\* once for every (tuple, symmetry) for which evaluate reads that entry on
\* the turn's board, and changes no other entry
SameEntries(k, keys) ==
    \A x \in Written(last.trace[k].table, TableAfter(k)) :
        weightAt(TableAfter(k), x[1], x[2])
            = weightAt(last.trace[k].table, x[1], x[2])
              + deltaOf(last.trace[k].error) * ReadsOf(keys, x)

\* C28 as stated: the update touches the entries evaluate reads, once per
\* read, and the value of the board after the update is its value before
\* plus 32 * learningRate * error
C28_Linear ==
    TrainedFast =>
        \A k \in 1..Len(last.trace) :
            \A keys \in {ReadKeys(TurnBoard(k))} :
                /\ SameEntries(k, keys)
                /\ evaluateT(TableAfter(k), TurnBoard(k))
                       = last.trace[k].value + 32 * deltaOf(last.trace[k].error)

\* C28: the update touches the entries evaluate reads, once per read, and no
\* others; an entry read n times is raised n times and read n times again,
\* so the value of the board after the update is its value before plus
\* learningRate * error times the sum, over the 32 reads, of the number of
\* reads of the entry read, a sum that is more than 32 as soon as an entry
\* is read twice
C28_SameIndex ==
    TrainedFast =>
        \A k \in 1..Len(last.trace) :
            \A keys \in {ReadKeys(TurnBoard(k))} :
                \A times \in {SubSeq([n \in DOMAIN keys |-> ReadsOf(keys, keys[n])],
                                      1, Len(keys))} :
                    /\ SameEntries(k, keys)
                    /\ Len(keys) = 32
                    /\ evaluateT(TableAfter(k), TurnBoard(k))
                           = last.trace[k].value
                             + SumSeq(times) * deltaOf(last.trace[k].error)
                    /\ (\E n \in DOMAIN times : times[n] > 1) => SumSeq(times) > 32

\* an update that moved the table on a board where evaluate reads one entry
\* more than once and another entry of the table not at all
C28_Witness ==
    /\ TrainedFast
    /\ \E k \in 1..Len(last.trace) :
           /\ deltaOf(last.trace[k].error) # 0
           /\ \E x \in DOMAIN TableAfter(k) : ReadsOf(ReadKeys(TurnBoard(k)), x) > 1
           /\ \E x \in DOMAIN TableAfter(k) : ReadsOf(ReadKeys(TurnBoard(k)), x) = 0

\* ------------------------------------------- the moves self-play applies

\* C30: the index trainLoop passes to game.makeMove is one of the moves
\* game.getLegalMoves() returned for the state it is applied to whenever there
\* are any, and PASS exactly when there are none; a disc only goes onto an
\* empty cell of the 8x8 field
C30_LegalPly ==
    (prog = "fast" /\ last.op = "makeMove") =>
        LET moves10 == getLegalMoves10(last.before, last.mover)
        IN  /\ Len(moves10) > 0 => last.move \in SeqSet(moves10)
            /\ last.move = PASS <=> Len(moves10) = 0
            /\ last.move # PASS =>
                   /\ last.move \in SeqSet(Playable)
                   /\ last.before[last.move] = EMPTY

\* past the plies in which a random move may be drawn, the move that
\* ai.getBestMove chose was applied, and it is not the first of the list
C30_Witness ==
    /\ FastMoved
    /\ plies > MaxRandomPly + 1
    /\ Len(getLegalMoves10(last.before, last.mover)) > 2
    /\ last.move # getLegalMoves10(last.before, last.mover)[1]
    /\ idx10to8(last.move) = getBestMoveN(getFlatBoard64(last.before), last.mover)

\* PASS was applied with empty cells left on the board
C30_Passed ==
    /\ FastPassed
    /\ getLegalMoves10(last.before, last.mover) = <<>>
    /\ \E m \in RC : ViewF(last.before)[m] = 0

\* ------------------------------------------------------------------- C23
\* C23: the training loop never starves pending work: runTrainingLoop reaches
\* a suspension point after a bounded number of games whatever their
\* outcomes, so that a message posted to the worker while training is active
\* is eventually handled (unless the games followed have run out).
C23_NoStarvation ==
    (inbox # <<>>) ~> (inbox = <<>> \/ (running # 0 /\ pc = "start" /\ Capped))

\* ------------------------------------------------------------------- C22
\* the loops that have been called and have not returned
Called == {l \in DOMAIN loops : loops[l].at # "done"}

\* C22: once STOP_TRAINING has been handled while a training loop is running,
\* that loop finds its "while" false at its next poll and goes on to no
\* further game, whatever the messages handled before and after.
C22_StopsAtPoll == \A l \in DOMAIN loops : ~loops[l].late

\* ------------------------------------------------------------------- C24
\* loop l waits for a transaction that has ended without completing
Blocked(l) ==
    /\ loops[l].at = "save"
    /\ \A i \in DOMAIN saves : saves[i].by = l => saves[i].state = "failed"

\* C24: at most one training loop is running at any time: no two loops that
\* have each begun a game are between their call and their return, for every
\* sequence of START_TRAINING and STOP_TRAINING messages.
C24_OneLoop ==
    Cardinality({l \in Called : loops[l].played /\ ~Blocked(l)}) <= 1

\* ------------------------------------------------------------------- C25
\* C25: a GET_MOVE message handled by the worker of ai-worker.js / part_001 is
\* answered with exactly one MOVE_RESULT, whose move is getBestMove on the
\* payload with the weights held in memory, whether or not the saves made
\* before it have completed; no other message answers it.
C25_Answered ==
    (prog # "fast" /\ last.op = "GET_MOVE") =>
        /\ Len(last.answers) = 1
        /\ last.answers[1] = getBestMove(last.board, last.player)
        /\ [type |-> "MOVE_RESULT", by |-> 0] \in posted
        /\ \A m \in posted : m.type # "ERROR"

\* a GET_MOVE answered with a move while a save has failed and the storage
\* holds another table than the engine
C25_Witness ==
    /\ prog # "fast" /\ last.op = "GET_MOVE"
    /\ \E i \in DOMAIN saves : saves[i].state = "failed"
    /\ stored.weights # weights
    /\ last.answers[1] # null

\* ------------------------------------------------------------------- C26
\* C26: a save that fails or never completes does not stop training: train
\* returns and the loop goes on, so that no loop is left waiting for a
\* transaction that has ended.
C26_Recovers == \A l \in DOMAIN loops : ~Blocked(l)

\* ------------------------------------------------------------------- C29
\* C29: from the first ply of a game of a training loop to the train call
\* that follows its end the evaluation model is the one the game began with,
\* whatever messages wait for the worker; the loop calls train at most once
\* for a game.
C29_NoMidGame ==
    /\ (running # 0 /\ pc \in {"play", "over"}) =>
           /\ loops[running].table = [weights |-> weights, seed |-> seed]
           /\ loops[running].calls = 0
    /\ \A l \in DOMAIN loops : loops[l].calls <= 1

\* a game in progress in a loop that has trained, with a message that would
\* change the model waiting for the worker
C29_Witness ==
    /\ running # 0 /\ pc = "play" /\ plies > 1
    /\ loops[running].trained > 0
    /\ inbox # <<>>
    /\ Head(inbox).type \in {"RESET_BRAIN", "TRAIN_END_GAME"}

\* ------------------------------------------------------------------- C31
\* the board b' with b'[i] = b[m[i]] for the map m built for s
turned(b, s) == [i \in 0..63 |-> b[symmetryMaps[s + 1][i + 1]]]

\* the 8 maps are pairwise distinct bijections of 0..63 and the composition
\* of any two of them is one of the 8
mapsClosed ==
    /\ Len(symmetryMaps) = 8
    /\ \A s \in 1..8 : {symmetryMaps[s][i] : i \in 1..64} = 0..63
    /\ \A s, u \in 1..8 : s # u => symmetryMaps[s] # symmetryMaps[u]
    /\ \A s, u \in 1..8 :
           \E v \in 1..8 :
               \A i \in 1..64 : symmetryMaps[s][symmetryMaps[u][i] + 1] = symmetryMaps[v][i]

creditedCells(b, won) ==
    {m \in (0..7) \X (0..7) :
        \E r \in {m[1], 7 - m[1]}, c \in {m[2], 7 - m[2]} : b[r][c] = won}

\* C32: in the self-play of ai-worker.js and part_001, train is called with
\* the winner as the credited side; after the train that ends a game of a
\* session that started from the default weights no weight is lower than
\* before the game, and every weight that has changed belongs to a cell
\* mirror-equivalent to a cell the winner holds on the final board.
C32_NeverLowered ==
    (prog \in {"v5", "v6"} /\ last.op = "train") =>
        /\ last.aiPlayer = last.winner
        /\ \A r, c \in 0..7 :
               /\ weights[r][c] >= last.before.weights[r][c]
               /\ weights[r][c] # last.before.weights[r][c]
                      => /\ last.winner # 0
                         /\ <<r, c>> \in creditedCells(last.board, last.winner)

====
